---- MODULE Spec2Model ----
(***************************************************************************)
(* Schema Convention Analysis Engine of azurerm-linter.                    *)
(*                                                                         *)
(* Part A: the shared-library schema cache (passes/schema, runCommon):     *)
(*         goroutines racing on globalSchemaInfo under loadMutex.          *)
(* Part B: the AZNR001 ordering check (passes/AZNR001.go): the canonical   *)
(*         order builder, the validator and the reporter, applied to       *)
(*         schema maps drawn from a bounded set.                           *)
(***************************************************************************)
EXTENDS Integers, Sequences, FiniteSets, TLC

VARIABLES
    \* ---- Part A: passes/schema/common_schema_info.go
    globalSchemaInfo,   \* the package-level pointer: Nil or a heap address
    heap,               \* heap[a] = Functions map (its key set) of the CommonSchemaInfo at address a
    readers,            \* loadMutex: number of goroutines holding the read lock
    writer,             \* loadMutex: goroutine holding the write lock, or NoProc
    pc,                 \* pc[g]: position of goroutine g inside runCommon
    calls,              \* number of runCommon calls started so far, by all goroutines
    cached,             \* cached[g]: the local `cached` of g's current call
    info,               \* info[g]: the local `info` of g's current call
    todo,               \* todo[g]: keys parseHelperPackage has still to insert for g's load
    result,             \* result[g]: what g's last finished call returned
    loadLog,            \* history: per executed loadSchemaInfo, in order, whether it found an entry
    lastLoad,           \* history: the goroutine and the pass of the latest loadSchemaInfo
    loadOnce,           \* commonschemainfo: the sync.Once of run: "fresh", "running" (f is being run), "done"
    \* ---- Part B: passes/AZNR001.go
    fields,             \* the extracted []helper.SchemaFieldInfo of the map literal under analysis
    pcN,                \* "ready": map extracted, callback not run; "done": callback returned
    outcome,            \* how the callback returned: "skipped" (lines 113-153), "empty" (137), "checked"
    expectedOrder,      \* expectedOrder as returned by checkAZNR001OrderingIssues
    reports,            \* the diagnostics passed to pass.Reportf, in order
    globalChangeSet,    \* loader: the ChangeSet LoadChanges stored, or the nil one
    filename,           \* the file of the map literal under analysis
    smap,               \* the elements (smap.Elts) of the map literal the extractor is given
    runs,               \* the results of successive getAZNR001ExpectedOrder(fields) calls
    \* ---- Part C: passes/AZC006
    revision,           \* which of the two revisions of the analyzer runs (1: lines 15-680, 2: lines 682-1619)
    file,               \* the file under analysis: path, function declarations, model mapping, schema map literals
    idFields,           \* run: idFields of the file (extractIDFieldsFromFile), nil as <<>>
    comp,               \* run: index in file.literals of the literal the ast.Inspect callback was last called on
    verdict,            \* run: how the callback on comp returned, and the expected order it built
    findings,           \* the diagnostics AZC006 passed to pass.Reportf, in order
    tpc                 \* position of the AZC006 analysis: "off", "start", "inspect", "done"

cacheVars == <<globalSchemaInfo, heap, readers, writer, pc, calls, cached, info, todo, result, loadLog, lastLoad, loadOnce>>
orderVars == <<fields, pcN, outcome, expectedOrder, reports, globalChangeSet, filename, smap, runs>>
tracerVars == <<revision, file, idFields, comp, verdict, findings, tpc>>
vars == <<cacheVars, orderVars, tracerVars>>

(***************************************************************************)
(* Bounds                                                                  *)
(***************************************************************************)
NProcs == 3       \* goroutines (module analyses) racing on the cache
MaxCalls == 4     \* runCommon calls in all
MaxFields == 4    \* longest schema map drawn
MaxRuns == 2      \* invocations of the order builder on one input
MaxChangedFields == 2   \* longest schema map drawn under a change set
MaxArgs == 3      \* most arguments of an identifier-constructor call
MaxIdFields == 2  \* most fields read into an identifier (order builder inputs)
MaxOrderFields == 3     \* longest schema map drawn for AZC006

Procs == 1..NProcs
NoProc == 0
Nil == 0

Last(s) == s[Len(s)]
Front(s) == SubSeq(s, 1, Len(s) - 1)
Range(s) == {s[i] : i \in 1..Len(s)}

(***************************************************************************)
(* Part A.  loadSchemaInfo and its inputs                                  *)
(***************************************************************************)

\* The helper package path the keys are built from (helperPkg.PkgPath).
CommonschemaPath == "github.com/hashicorp/go-azure-helpers/resourcemanager/commonschema"

\* Function declarations a loaded helper package may hold: exported or not,
\* with a body or not, and whether extractSingleSchemaPropertyFromFunc finds
\* a returned schema literal in it.
FuncDecl(name, exported, body, schema) ==
    [name |-> name, exported |-> exported, body |-> body, schema |-> schema]

FnResourceGroupName == FuncDecl("ResourceGroupName", TRUE, TRUE, TRUE)
FnLocation == FuncDecl("Location", TRUE, TRUE, TRUE)
FnHelper == FuncDecl("locationSchema", FALSE, TRUE, TRUE)
FnVersion == FuncDecl("Version", TRUE, TRUE, FALSE)
FnExtern == FuncDecl("Tags", TRUE, FALSE, TRUE)

\* Directories (as component sequences, root first) of analysed files.
DirService == <<"repo", "internal", "services", "compute">>
DirNoInternal == <<"repo", "services", "compute">>
DirNestedModule == <<"repo", "vendor", "mod", "internal", "sdk">>
DirGoBuild == <<"cache", "go-build", "internal", "ab">>

\* Roots under which vendor/github.com/hashicorp/go-azure-helpers/... exists.
VendorRoots == {<<"repo">>, <<"cache", "go-build">>}

\* An analysis pass as loadSchemaInfo reads it: the number of files, the
\* directory of the first file, and what packages.Load gives for the vendor
\* directory (an error, or a list of packages, each a set of declarations).
Pass(files, dir, loadErr, pkgs) ==
    [files |-> files, dir |-> dir, loadErr |-> loadErr, pkgs |-> pkgs]

PkgFull == {FnResourceGroupName, FnLocation, FnHelper, FnVersion, FnExtern}
PkgOne == {FnResourceGroupName, FnHelper}
PkgNoSchema == {FnHelper, FnVersion, FnExtern}

Passes ==
    { Pass(0, DirService, FALSE, <<PkgFull>>),        \* no files
      Pass(1, DirGoBuild, FALSE, <<PkgFull>>),        \* go build cache file
      Pass(1, DirNoInternal, FALSE, <<PkgFull>>),     \* no `internal` ancestor
      Pass(1, DirNestedModule, FALSE, <<PkgFull>>),   \* vendor path missing
      Pass(1, DirService, TRUE, <<PkgFull>>),         \* packages.Load error
      Pass(1, DirService, FALSE, <<>>),               \* no package loaded
      Pass(1, DirService, FALSE, <<PkgNoSchema>>),    \* nothing to extract
      Pass(1, DirService, FALSE, <<PkgOne>>),
      Pass(1, DirService, FALSE, <<PkgFull, PkgOne>>) }

\* strings.Contains(filePath, "go-build") || ... "AppData" || ... ".test"
IsGoCacheFile(dir) == \E i \in 1..Len(dir) : dir[i] \in {"go-build", "AppData", ".test"}

\* The upward walk: the repo root above the nearest `internal` ancestor.
RECURSIVE FindInternal(_)
FindInternal(dir) ==
    IF dir = <<>> THEN [foundInternal |-> FALSE, dir |-> <<>>]
    ELSE IF Last(dir) = "internal" THEN [foundInternal |-> TRUE, dir |-> Front(dir)]
    ELSE FindInternal(Front(dir))

\* parseHelperPackage: the keys it inserts for one package.
parseHelperPackage(helperPkg) ==
    { CommonschemaPath \o "." \o fd.name :
        fd \in {d \in helperPkg : d.body /\ d.exported /\ d.schema} }

loadSchemaInfo_NoVendorStat(pass) ==
    IF pass.files = 0 THEN {}
    ELSE IF IsGoCacheFile(pass.dir) THEN {}
    ELSE LET w == FindInternal(pass.dir) IN
         IF ~w.foundInternal THEN {}
         ELSE IF pass.loadErr THEN {}
         ELSE IF Len(pass.pkgs) > 0 THEN parseHelperPackage(pass.pkgs[1])
         ELSE {}

\* loadSchemaInfo: the key set of the Functions map it returns.
loadSchemaInfo(pass) ==
    IF pass.files = 0 THEN {}
    ELSE IF IsGoCacheFile(pass.dir) THEN {}
    ELSE LET w == FindInternal(pass.dir) IN
         IF ~w.foundInternal THEN {}
         ELSE IF w.dir \notin VendorRoots THEN {}
         ELSE IF pass.loadErr THEN {}
         ELSE IF Len(pass.pkgs) > 0 THEN parseHelperPackage(pass.pkgs[1])
         ELSE {}

(***************************************************************************)
(* Part A.  runCommon, one action per step a goroutine takes               *)
(***************************************************************************)
NoResult == [value |-> Nil, err |-> "none"]

\* `cached != nil` (line 80) and `globalSchemaInfo != nil` (line 88)
IsCached(p) == p # Nil

\* `len(info.Functions) > 0` (line 94)
LoadSucceeded_OffByOne(a) == Cardinality(heap[a]) > 1

LoadSucceeded_Always(a) == TRUE

LoadSucceeded(a) == Cardinality(heap[a]) > 0

\* The double check of line 88 fails: the load is still to be done.
NeedsLoad_NoDoubleCheck(g) == cached[g] = Nil

NeedsLoad(g) == ~IsCached(globalSchemaInfo)

InitCacheIdle ==
    /\ globalSchemaInfo = Nil
    /\ heap = <<>>
    /\ readers = 0
    /\ writer = NoProc
    /\ pc = [g \in Procs |-> "idle"]
    /\ calls = 0
    /\ cached = [g \in Procs |-> Nil]
    /\ info = [g \in Procs |-> Nil]
    /\ todo = [g \in Procs |-> {}]
    /\ result = [g \in Procs |-> NoResult]
    /\ loadLog = <<>>
    /\ lastLoad = [by |-> NoProc, pass |-> Nil]
    /\ loadOnce = "fresh"

\* Part B at rest: no map under analysis.
InitOrderIdle ==
    /\ fields = <<>>
    /\ pcN = "off"
    /\ outcome = "none"
    /\ expectedOrder = <<>>
    /\ reports = <<>>
    /\ globalChangeSet = [IsNil |-> TRUE, changedFiles |-> {}, newFiles |-> {}]
    /\ filename = [segs |-> <<>>, stem |-> "", suffix |-> ""]
    /\ smap = <<>>
    /\ runs = <<>>

\* Part C at rest.
InitTracerIdle ==
    /\ revision = 0
    /\ file = [path |-> [segs |-> <<>>, stem |-> "", suffix |-> ""], funcs |-> <<>>,
               mapping |-> <<>>, literals |-> <<>>]
    /\ idFields = <<>>
    /\ comp = 0
    /\ verdict = [outcome |-> "none", expected |-> <<>>]
    /\ findings = <<>>
    /\ tpc = "off"

InitCache == InitCacheIdle /\ InitOrderIdle /\ InitTracerIdle

\* The driver calls runCommon for a package.
Call(g) ==
    /\ pc[g] = "idle"
    /\ calls < MaxCalls
    /\ calls' = calls + 1
    /\ cached' = [cached EXCEPT ![g] = Nil]
    /\ info' = [info EXCEPT ![g] = Nil]
    /\ result' = [result EXCEPT ![g] = NoResult]
    /\ pc' = [pc EXCEPT ![g] = "rlock"]
    /\ UNCHANGED <<globalSchemaInfo, heap, readers, writer, todo, loadLog, lastLoad, loadOnce, orderVars, tracerVars>>

\* loadMutex.RLock()
RLock(g) ==
    /\ pc[g] = "rlock"
    /\ writer = NoProc
    /\ readers' = readers + 1
    /\ pc' = [pc EXCEPT ![g] = "read"]
    /\ UNCHANGED <<globalSchemaInfo, heap, writer, calls, cached, info, todo, result, loadLog, lastLoad, loadOnce, orderVars, tracerVars>>

\* cached := globalSchemaInfo
ReadCached(g) ==
    /\ pc[g] = "read"
    /\ cached' = [cached EXCEPT ![g] = globalSchemaInfo]
    /\ pc' = [pc EXCEPT ![g] = "runlock"]
    /\ UNCHANGED <<globalSchemaInfo, heap, readers, writer, calls, info, todo, result, loadLog, lastLoad, loadOnce, orderVars, tracerVars>>

\* A caller that goes on to Lock without giving up its read lock.
RUnlock_KeepsReadLock(g) ==
    /\ pc[g] = "runlock"
    /\ IF IsCached(cached[g])
       THEN /\ result' = [result EXCEPT ![g] = [value |-> cached[g], err |-> "nil"]]
            /\ pc' = [pc EXCEPT ![g] = "idle"]
            /\ readers' = readers - 1
       ELSE /\ result' = result
            /\ pc' = [pc EXCEPT ![g] = "lock"]
            /\ readers' = readers
    /\ UNCHANGED <<globalSchemaInfo, heap, writer, calls, cached, info, todo, loadLog, lastLoad, loadOnce, orderVars, tracerVars>>

\* loadMutex.RUnlock(); if cached != nil { return cached, nil }
RUnlock(g) ==
    /\ pc[g] = "runlock"
    /\ readers' = readers - 1
    /\ IF IsCached(cached[g])
       THEN /\ result' = [result EXCEPT ![g] = [value |-> cached[g], err |-> "nil"]]
            /\ pc' = [pc EXCEPT ![g] = "idle"]
       ELSE /\ result' = result
            /\ pc' = [pc EXCEPT ![g] = "lock"]
    /\ UNCHANGED <<globalSchemaInfo, heap, writer, calls, cached, info, todo, loadLog, lastLoad, loadOnce, orderVars, tracerVars>>

\* loadMutex.Lock()
Lock(g) ==
    /\ pc[g] = "lock"
    /\ writer = NoProc
    /\ readers = 0
    /\ writer' = g
    /\ pc' = [pc EXCEPT ![g] = "check"]
    /\ UNCHANGED <<globalSchemaInfo, heap, readers, calls, cached, info, todo, result, loadLog, lastLoad, loadOnce, orderVars, tracerVars>>

\* if globalSchemaInfo != nil { return globalSchemaInfo, nil }  (deferred Unlock runs)
DoubleCheckHit(g) ==
    /\ pc[g] = "check"
    /\ ~NeedsLoad(g)
    /\ result' = [result EXCEPT ![g] = [value |-> globalSchemaInfo, err |-> "nil"]]
    /\ writer' = NoProc
    /\ pc' = [pc EXCEPT ![g] = "idle"]
    /\ UNCHANGED <<globalSchemaInfo, heap, readers, calls, cached, info, todo, loadLog, lastLoad, loadOnce, orderVars, tracerVars>>

\* info := loadSchemaInfo(pass): the map is allocated empty (line 104); the
\* pass is read here for the first time, so it is drawn here.
LoadStart(g) ==
    /\ pc[g] = "check"
    /\ NeedsLoad(g)
    /\ \E pass \in Passes :
        /\ todo' = [todo EXCEPT ![g] = loadSchemaInfo(pass)]
        /\ loadLog' = Append(loadLog, loadSchemaInfo(pass) # {})
        /\ lastLoad' = [by |-> g, pass |-> pass]
    /\ heap' = Append(heap, {})
    /\ info' = [info EXCEPT ![g] = Len(heap) + 1]
    /\ pc' = [pc EXCEPT ![g] = "load"]
    /\ UNCHANGED <<globalSchemaInfo, readers, writer, calls, cached, result, loadOnce, orderVars, tracerVars>>

\* info.Functions[key] = schemaInfo, one insertion (line 180)
LoadInsert(g) ==
    /\ pc[g] = "load"
    /\ \E key \in todo[g] :
        /\ heap' = [heap EXCEPT ![info[g]] = @ \cup {key}]
        /\ todo' = [todo EXCEPT ![g] = @ \ {key}]
    /\ UNCHANGED <<globalSchemaInfo, readers, writer, pc, calls, cached, info, result, loadLog, lastLoad, loadOnce, orderVars, tracerVars>>

\* loadSchemaInfo returned: lines 94-100, then the deferred Unlock
StoreAndReturn(g) ==
    /\ pc[g] = "load"
    /\ todo[g] = {}
    /\ globalSchemaInfo' = IF LoadSucceeded(info[g]) THEN info[g] ELSE globalSchemaInfo
    /\ result' = [result EXCEPT ![g] = [value |-> info[g], err |-> "nil"]]
    /\ writer' = NoProc
    /\ pc' = [pc EXCEPT ![g] = "idle"]
    /\ UNCHANGED <<heap, readers, calls, cached, info, todo, loadLog, lastLoad, loadOnce, orderVars, tracerVars>>

NextCache ==
    \E g \in Procs :
        \/ Call(g)
        \/ RLock(g)
        \/ ReadCached(g)
        \/ RUnlock(g)
        \/ Lock(g)
        \/ DoubleCheckHit(g)
        \/ LoadStart(g)
        \/ LoadInsert(g)
        \/ StoreAndReturn(g)

SpecCache == InitCache /\ [][NextCache]_vars

\* A goroutine inside runCommon whose next step stays possible takes it: the
\* Go scheduler runs every runnable goroutine, and sync.RWMutex wakes a caller
\* blocked in RLock or Lock when the lock is released. The driver is not
\* obliged to make further calls, so Call is left out.
Step(g) ==
    \/ RLock(g)
    \/ ReadCached(g)
    \/ RUnlock(g)
    \/ Lock(g)
    \/ DoubleCheckHit(g)
    \/ LoadStart(g)
    \/ LoadInsert(g)
    \/ StoreAndReturn(g)

FairCache == \A g \in Procs : WF_vars(Step(g))

SpecCacheFair == SpecCache /\ FairCache

(***************************************************************************)
(* Part A.  Properties of the cache                                        *)
(***************************************************************************)
Loading == {g \in Procs : pc[g] = "load"}

\* Addresses of maps loadSchemaInfo is still inserting into.
BeingFilled == {info[g] : g \in Loading}

Returned(g) == pc[g] = "idle" /\ result[g] # NoResult

Populated(a) == a # Nil /\ heap[a] # {}

\* C1: racing first-use calls give one population pass and consistent reads.
\* A load that found an entry is the last load ever executed (so when the
\* first load finds one, loadSchemaInfo runs exactly once in total); every
\* call that returned a populated object returned the one published object,
\* holding every key that load found; no goroutine holds, as `cached` or as
\* its return value, a map that is still being filled.
C1_OneLoadConsistentReads ==
    /\ \A i \in 1..Len(loadLog) : loadLog[i] => i = Len(loadLog)
    /\ \A g \in Procs :
         (Returned(g) /\ Populated(result[g].value)) =>
            /\ result[g].value = globalSchemaInfo
            /\ loadLog # <<>> /\ Last(loadLog)
            /\ heap[result[g].value] = loadSchemaInfo(lastLoad.pass)
    /\ \A g \in Procs :
         /\ cached[g] \notin BeingFilled
         /\ Returned(g) => result[g].value \notin BeingFilled

\* C1 witness: every goroutine missed the cache on the read-locked check of
\* its first call, one load ran, and all of them returned its object.
C1_Witness ==
    /\ calls = NProcs
    /\ loadLog = <<TRUE>>
    /\ \A g \in Procs :
         /\ Returned(g)
         /\ cached[g] = Nil
         /\ Populated(result[g].value)
         /\ result[g].value = globalSchemaInfo

\* C2: a load that finds nothing is not stored and the next caller retries.
\* While no load has found an entry the cache is empty; every call that
\* returned while the cache is empty ran its own load and got its own empty
\* map; a call whose load found an entry left the cache holding that map.
C2_FailureNotCachedRetried ==
    /\ (\A i \in 1..Len(loadLog) : ~loadLog[i]) => globalSchemaInfo = Nil
    /\ \A g \in Procs :
         (Returned(g) /\ globalSchemaInfo = Nil) =>
            /\ info[g] # Nil
            /\ result[g].value = info[g]
            /\ heap[info[g]] = {}
    /\ \A g \in Procs :
         (Returned(g) /\ Populated(info[g])) => globalSchemaInfo = info[g]

\* C2 witness: two failed loads, then a third caller's load populated the cache.
C2_Witness ==
    /\ loadLog = <<FALSE, FALSE, TRUE>>
    /\ \E g \in Procs :
         /\ Returned(g)
         /\ Populated(info[g])
         /\ globalSchemaInfo = info[g]

\* C3: the cache is nil or a map with at least one entry, and once it is
\* populated no step replaces it, empties it or changes the map it points to.
C3_PopulatedIsFinal ==
    /\ [](globalSchemaInfo = Nil \/ heap[globalSchemaInfo] # {})
    /\ [][globalSchemaInfo # Nil =>
            /\ globalSchemaInfo' = globalSchemaInfo
            /\ heap'[globalSchemaInfo] = heap[globalSchemaInfo]]_vars

\* C3 witness: after a failed and a successful load, one later call returned
\* the cached map from the read-locked check and another from the double check.
C3_Witness ==
    /\ Populated(globalSchemaInfo)
    /\ Len(loadLog) = 2
    /\ \E g, h \in Procs :
         /\ Returned(g) /\ cached[g] = globalSchemaInfo
         /\ Returned(h) /\ cached[h] = Nil /\ info[h] = Nil
         /\ result[h].value = globalSchemaInfo

\* The helper module cannot be located or parsed for this pass: no files, no
\* `internal` ancestor, no vendor directory under the root, or a load error.
CannotLocate(pass) ==
    LET at == {i \in 1..Len(pass.dir) : pass.dir[i] = "internal"}
        k == CHOOSE i \in at : \A j \in at : j <= i
    IN \/ pass.files = 0
       \/ at = {}
       \/ SubSeq(pass.dir, 1, k - 1) \notin VendorRoots
       \/ pass.loadErr

\* C4: cache load failure is fail-open. Every call returns a non-nil
\* descriptor set and a nil error; a call whose load could not locate or parse
\* the helper module returns a set with zero entries.
C4_LoadFailureFailOpen ==
    \A g \in Procs :
        Returned(g) =>
            /\ result[g].value # Nil
            /\ result[g].err = "nil"
            /\ (lastLoad.by = g /\ info[g] # Nil /\ CannotLocate(lastLoad.pass)) =>
                   (result[g].value = info[g] /\ heap[result[g].value] = {})

\* C4 witness: a call whose load hit a packages.Load error, and one whose
\* module has no vendor directory, has returned.
C4_Witness ==
    \E g \in Procs :
        /\ Returned(g)
        /\ lastLoad.by = g
        /\ info[g] # Nil
        /\ result[g].value = info[g]
        /\ lastLoad.pass.files = 1
        /\ FindInternal(lastLoad.pass.dir).foundInternal
        /\ \/ lastLoad.pass.loadErr
           \/ FindInternal(lastLoad.pass.dir).dir \notin VendorRoots

(***************************************************************************)
(* Part A.  helpers/commonschemainfo: run, the cache guarded by sync.Once   *)
(***************************************************************************)
\* The key sets loadSchemaInfo of commonschemainfo returns (lines 65-121): the
\* walk of common_schema_info.go without its ".test" test, and with pkgs[0]
\* read unguarded, so for the passes that have a package to read.
OnceLoads == {loadSchemaInfo(p) : p \in {q \in Passes : Len(q.pkgs) > 0}}

\* The driver calls run for a package.
OnceCall(g) ==
    /\ pc[g] = "idle"
    /\ calls < MaxCalls
    /\ calls' = calls + 1
    /\ info' = [info EXCEPT ![g] = Nil]
    /\ result' = [result EXCEPT ![g] = NoResult]
    /\ pc' = [pc EXCEPT ![g] = "once_rlock"]
    /\ UNCHANGED <<globalSchemaInfo, heap, readers, writer, cached, todo, loadLog, lastLoad,
                   loadOnce, orderVars, tracerVars>>

\* loadMutex.RLock() (line 37)
OnceRLock(g) ==
    /\ pc[g] = "once_rlock"
    /\ writer = NoProc
    /\ readers' = readers + 1
    /\ pc' = [pc EXCEPT ![g] = "once_check"]
    /\ UNCHANGED <<globalSchemaInfo, heap, writer, calls, cached, info, todo, result, loadLog,
                   lastLoad, loadOnce, orderVars, tracerVars>>

\* lines 38-42: the read-locked check and RUnlock on either branch
OnceCheck(g) ==
    /\ pc[g] = "once_check"
    /\ readers' = readers - 1
    /\ IF globalSchemaInfo # Nil /\ Cardinality(heap[globalSchemaInfo]) > 0
       THEN /\ result' = [result EXCEPT ![g] = [value |-> globalSchemaInfo, err |-> "nil"]]
            /\ pc' = [pc EXCEPT ![g] = "idle"]
       ELSE /\ result' = result
            /\ pc' = [pc EXCEPT ![g] = "once_do"]
    /\ UNCHANGED <<globalSchemaInfo, heap, writer, calls, cached, info, todo, loadLog,
                   lastLoad, loadOnce, orderVars, tracerVars>>

\* loadOnce.Do (line 44): the first caller runs f, a caller that arrives
\* while f runs waits for it, a caller that arrives later goes on at once.
OnceDo(g) ==
    /\ pc[g] = "once_do"
    /\ loadOnce # "running"
    /\ IF loadOnce = "fresh"
       THEN loadOnce' = "running" /\ pc' = [pc EXCEPT ![g] = "once_lock"]
       ELSE loadOnce' = loadOnce /\ pc' = [pc EXCEPT ![g] = "once_rlock2"]
    /\ UNCHANGED <<globalSchemaInfo, heap, readers, writer, calls, cached, info, todo, result,
                   loadLog, lastLoad, orderVars, tracerVars>>

\* loadMutex.Lock() (line 45)
OnceLock(g) ==
    /\ pc[g] = "once_lock"
    /\ writer = NoProc
    /\ readers = 0
    /\ writer' = g
    /\ pc' = [pc EXCEPT ![g] = "once_load"]
    /\ UNCHANGED <<globalSchemaInfo, heap, readers, calls, cached, info, todo, result, loadLog,
                   lastLoad, loadOnce, orderVars, tracerVars>>

\* lines 47-50, the deferred Unlock, and the return of Do
OnceLoad(g) ==
    /\ pc[g] = "once_load"
    /\ \E keys \in OnceLoads :
        /\ heap' = Append(heap, keys)
        /\ globalSchemaInfo' = IF Cardinality(keys) > 0 THEN Len(heap) + 1 ELSE globalSchemaInfo
        /\ loadLog' = Append(loadLog, keys # {})
    /\ info' = [info EXCEPT ![g] = Len(heap) + 1]
    /\ writer' = NoProc
    /\ loadOnce' = "done"
    /\ pc' = [pc EXCEPT ![g] = "once_rlock2"]
    /\ UNCHANGED <<readers, calls, cached, todo, result, lastLoad, orderVars, tracerVars>>

\* loadMutex.RLock() (line 53)
OnceRLock2(g) ==
    /\ pc[g] = "once_rlock2"
    /\ writer = NoProc
    /\ readers' = readers + 1
    /\ pc' = [pc EXCEPT ![g] = "once_return"]
    /\ UNCHANGED <<globalSchemaInfo, heap, writer, calls, cached, info, todo, result, loadLog,
                   lastLoad, loadOnce, orderVars, tracerVars>>

\* lines 55-62 and the deferred RUnlock: the cache, or a new empty map
OnceReturn(g) ==
    /\ pc[g] = "once_return"
    /\ readers' = readers - 1
    /\ IF globalSchemaInfo # Nil
       THEN /\ result' = [result EXCEPT ![g] = [value |-> globalSchemaInfo, err |-> "nil"]]
            /\ heap' = heap
       ELSE /\ result' = [result EXCEPT ![g] = [value |-> Len(heap) + 1, err |-> "nil"]]
            /\ heap' = Append(heap, {})
    /\ pc' = [pc EXCEPT ![g] = "idle"]
    /\ UNCHANGED <<globalSchemaInfo, writer, calls, cached, info, todo, loadLog, lastLoad,
                   loadOnce, orderVars, tracerVars>>

NextOnce ==
    \E g \in Procs :
        \/ OnceCall(g)
        \/ OnceRLock(g)
        \/ OnceCheck(g)
        \/ OnceDo(g)
        \/ OnceLock(g)
        \/ OnceLoad(g)
        \/ OnceRLock2(g)
        \/ OnceReturn(g)

SpecOnce == InitCache /\ [][NextOnce]_vars

(***************************************************************************)
(* Part B.  AZNR001: field names, descriptors and schema maps              *)
(***************************************************************************)
fieldName == "name"
fieldResourceGroupName == "resource_group_name"
fieldLocation == "location"
fieldTags == "tags"

\* The field names maps are drawn from, in ascending byte order: Go compares
\* strings bytewise, which for these literals is the order listed.
FieldNames == <<fieldLocation, fieldName, fieldResourceGroupName, fieldTags>>

NameSet == Range(FieldNames)

Rank(n) == CHOOSE i \in 1..Len(FieldNames) : FieldNames[i] = n

\* x > y on Go strings
StrGreater(x, y) == Rank(x) > Rank(y)

\* *schema.SchemaInfo: the nil pointer (unresolved), or the flags NewSchemaInfo
\* read from the literal, each independently of the others.
NilInfo == [IsNil |-> TRUE, Required |-> FALSE, Optional |-> FALSE, Computed |-> FALSE]

Flags(r, o, c) == [IsNil |-> FALSE, Required |-> r, Optional |-> o, Computed |-> c]

SchemaInfos ==
    {NilInfo} \cup {Flags(r, o, c) : r \in BOOLEAN, o \in BOOLEAN, c \in BOOLEAN}

\* helper.SchemaFieldInfo
SchemaFieldInfo(n, si) == [Name |-> n, SchemaInfo |-> si]

\* Name lists of extracted schema maps: the keys of a Go map literal are
\* distinct constants.
NameLists(n) ==
    {ns \in [1..n -> NameSet] : \A i, j \in 1..n : i # j => ns[i] # ns[j]}

\* The schema map with names ns and descriptors si, in declaration order.
SchemaMap(ns, si) == [i \in 1..Len(ns) |-> SchemaFieldInfo(ns[i], si[i])]

FieldOrder(fs) == [i \in 1..Len(fs) |-> fs[i].Name]

\* sort.Strings: ascending, by insertion
RECURSIVE InsertSorted(_, _)
InsertSorted(x, s) ==
    IF s = <<>> THEN <<x>>
    ELSE IF StrGreater(s[1], x) THEN <<x>> \o s
    ELSE <<s[1]>> \o InsertSorted(x, Tail(s))

RECURSIVE SortStrings(_)
SortStrings(s) == IF s = <<>> THEN <<>> ELSE InsertSorted(s[1], SortStrings(Tail(s)))

\* An exemption that wants `name` to be Optional and nothing else.
hasOptionalNameWithExactlyOneOf_OptionalOnly(fs) ==
    \E i \in 1..Len(fs) :
        /\ fs[i].Name = fieldName
        /\ ~fs[i].SchemaInfo.IsNil
        /\ fs[i].SchemaInfo.Optional
        /\ ~fs[i].SchemaInfo.Required
        /\ ~fs[i].SchemaInfo.Computed

\* hasOptionalNameWithExactlyOneOf
hasOptionalNameWithExactlyOneOf(fs) ==
    \E i \in 1..Len(fs) :
        /\ fs[i].Name = fieldName
        /\ ~fs[i].SchemaInfo.IsNil
        /\ fs[i].SchemaInfo.Optional

\* lines 188-195
locationIsComputed(fs) ==
    \E i \in 1..Len(fs) :
        /\ fs[i].Name = fieldLocation
        /\ ~fs[i].SchemaInfo.IsNil
        /\ fs[i].SchemaInfo.Computed

\* First index (or -1) of a resolved field with the flag set: what the loop of
\* lines 204-213 leaves in lastOptionalIdx and in firstRequiredIdx.
FirstIdx(fs, flag) ==
    LET hits == {i \in 1..Len(fs) : ~fs[i].SchemaInfo.IsNil /\ fs[i].SchemaInfo[flag]}
    IN IF hits = {} THEN -1 ELSE CHOOSE i \in hits : \A j \in hits : i <= j

LastIdx(fs, flag) ==
    LET hits == {i \in 1..Len(fs) : ~fs[i].SchemaInfo.IsNil /\ fs[i].SchemaInfo[flag]}
    IN IF hits = {} THEN -1 ELSE CHOOSE i \in hits : \A j \in hits : i >= j

hasOptionalBeforeRequired_LastOptional(fs) ==
    LET lastOptionalIdx == LastIdx(fs, "Optional")
        firstRequiredIdx == FirstIdx(fs, "Required")
    IN lastOptionalIdx # -1 /\ firstRequiredIdx # -1 /\ lastOptionalIdx < firstRequiredIdx

\* lines 201-216
hasOptionalBeforeRequired(fs) ==
    LET lastOptionalIdx == FirstIdx(fs, "Optional")
        firstRequiredIdx == FirstIdx(fs, "Required")
    IN lastOptionalIdx # -1 /\ firstRequiredIdx # -1 /\ lastOptionalIdx < firstRequiredIdx

Bucket_NoLocationSkip(f, locComputed) ==
    IF f.Name = fieldTags THEN "tags"
    ELSE IF f.SchemaInfo.IsNil THEN "none"
    ELSE IF f.SchemaInfo.Required THEN "required"
    ELSE IF f.SchemaInfo.Optional THEN "optional"
    ELSE IF f.SchemaInfo.Computed THEN "computed"
    ELSE "none"

Bucket_TagsByFlags(f, locComputed) ==
    IF f.Name = fieldLocation /\ locComputed THEN "location"
    ELSE IF f.SchemaInfo.IsNil THEN "none"
    ELSE IF f.SchemaInfo.Required THEN "required"
    ELSE IF f.SchemaInfo.Optional THEN "optional"
    ELSE IF f.SchemaInfo.Computed THEN "computed"
    ELSE "none"

\* The list a field is appended to by the loop of lines 224-246.
Bucket(f, locComputed) ==
    IF f.Name = fieldTags THEN "tags"
    ELSE IF f.Name = fieldLocation /\ locComputed THEN "location"
    ELSE IF f.SchemaInfo.IsNil THEN "none"
    ELSE IF f.SchemaInfo.Required THEN "required"
    ELSE IF f.SchemaInfo.Optional THEN "optional"
    ELSE IF f.SchemaInfo.Computed THEN "computed"
    ELSE "none"

Collect(fs, bucket) ==
    LET lc == locationIsComputed(fs)
    IN FieldOrder(SelectSeq(fs, LAMBDA f : Bucket(f, lc) = bucket))

\* Last index (or -1) of name in a list: the loop of lines 251-258.
PosOf(names, n) ==
    LET hits == {i \in 1..Len(names) : names[i] = n}
    IN IF hits = {} THEN -1 ELSE CHOOSE i \in hits : \A j \in hits : i >= j

FixRequired_AnyOrder(requiredFields) ==
    LET rgPos == PosOf(requiredFields, fieldResourceGroupName)
        locPos == PosOf(requiredFields, fieldLocation)
    IN IF rgPos # -1 /\ locPos # -1
       THEN [i \in 1..Len(requiredFields) |->
                IF i = rgPos THEN requiredFields[locPos]
                ELSE IF i = locPos THEN requiredFields[rgPos]
                ELSE requiredFields[i]]
       ELSE requiredFields

\* lines 248-262: requiredFields after the resource_group_name/location fix
FixRequired(requiredFields) ==
    LET rgPos == PosOf(requiredFields, fieldResourceGroupName)
        locPos == PosOf(requiredFields, fieldLocation)
    IN IF rgPos # -1 /\ locPos # -1 /\ locPos < rgPos
       THEN [i \in 1..Len(requiredFields) |->
                IF i = rgPos THEN requiredFields[locPos]
                ELSE IF i = locPos THEN requiredFields[rgPos]
                ELSE requiredFields[i]]
       ELSE requiredFields

\* A builder that sorts the optional fields on its first call only.
OptionalPart_FirstCallOnly(fs) ==
    IF ~hasOptionalBeforeRequired(fs) /\ runs = <<>>
    THEN SortStrings(Collect(fs, "optional"))
    ELSE Collect(fs, "optional")

\* lines 269-273
OptionalPart(fs) ==
    IF ~hasOptionalBeforeRequired(fs)
    THEN SortStrings(Collect(fs, "optional"))
    ELSE Collect(fs, "optional")

getAZNR001ExpectedOrder(fs) ==
    FixRequired(Collect(fs, "required"))
    \o OptionalPart(fs)
    \o (IF locationIsComputed(fs) THEN <<fieldLocation>> ELSE <<>>)
    \o SortStrings(Collect(fs, "computed"))
    \o Collect(fs, "tags")

IssueText == "schema fields are not in the expected order"

validateAZNR001Order_FirstOnly(fs, expected) ==
    IF Len(fs) # Len(expected) THEN ""
    ELSE IF Len(fs) > 0 /\ fs[1].Name # expected[1] THEN IssueText
    ELSE ""

validateAZNR001Order(fs, expected) ==
    IF Len(fs) # Len(expected) THEN ""
    ELSE IF \E i \in 1..Len(fs) : fs[i].Name # expected[i] THEN IssueText
    ELSE ""

\* checkAZNR001OrderingIssues: <<expectedOrder, issue>>; nil is the empty list
checkAZNR001OrderingIssues(fs) ==
    IF Len(fs) = 0 THEN <<(<<>>), "">>
    ELSE IF hasOptionalNameWithExactlyOneOf(fs) THEN <<(<<>>), "">>
    ELSE LET expected == getAZNR001ExpectedOrder(fs)
         IN <<expected, validateAZNR001Order(fs, expected)>>

(***************************************************************************)
(* loader/changedlines.go: the change set the new-file filter reads.       *)
(* A path is its directory segments, the stem of its base name and the     *)
(* suffix of its base name, so that strings.HasSuffix and the search for   *)
(* "internal/services/" are computed from the path (the search is done     *)
(* on whole segments).                                                     *)
(***************************************************************************)
servicePathPrefix == <<"internal", "services">>

aznr001FileSuffix == {"_resource.go", "_data_source.go"}

Path(segs, stem, suffix) == [segs |-> segs, stem |-> stem, suffix |-> suffix]

FileAccountResource ==
    Path(<<"home", "repo", "internal", "services", "storage">>, "account", "_resource.go")

FileRegistration ==
    Path(<<"home", "repo", "internal", "services", "storage">>, "registration", ".go")

FileSdkResource ==
    Path(<<"home", "repo", "internal", "sdk">>, "wrapper", "_resource.go")

AnalyzedFiles == {FileAccountResource, FileRegistration, FileSdkResource}

\* strings.Index(path, servicePathPrefix): the segment the prefix starts at, 0 if absent
ServiceIndex(segs) ==
    LET hits == {i \in 1..(Len(segs) - 1) :
                    segs[i] = servicePathPrefix[1] /\ segs[i + 1] = servicePathPrefix[2]}
    IN IF hits = {} THEN 0 ELSE CHOOSE i \in hits : \A j \in hits : i <= j

isServiceFile(path) == ServiceIndex(path.segs) # 0

normalizeFilePath(f) ==
    LET idx == ServiceIndex(f.segs)
    IN IF idx = 0 THEN f
       ELSE Path(SubSeq(f.segs, idx, Len(f.segs)), f.stem, f.suffix)

\* *ChangeSet: nil, or the file sets parseDiffOutput filled (changedLines is
\* not read by AZNR001)
NilChangeSet == [IsNil |-> TRUE, changedFiles |-> {}, newFiles |-> {}]

ChangeSet(changed, new) == [IsNil |-> FALSE, changedFiles |-> changed, newFiles |-> new]

\* parseDiffOutput records service files only, under their normalized path,
\* and a new file is recorded as changed too.
DiffFiles == {normalizeFilePath(f) : f \in {g \in AnalyzedFiles : isServiceFile(g)}}

ChangeSets ==
    {NilChangeSet} \cup
    {ChangeSet(changed, new) : changed \in SUBSET DiffFiles, new \in SUBSET DiffFiles}

LoadedChangeSets == {cs \in ChangeSets : cs.newFiles \subseteq cs.changedFiles}

\* A filter that lets a file through only when the change set records it as new.
ChangeSet_IsNewFile_Strict(cs, f) ==
    normalizeFilePath(f) \in cs.newFiles

\* (cs *ChangeSet) IsNewFile
ChangeSet_IsNewFile(cs, f) ==
    IF cs.newFiles = {} THEN TRUE
    ELSE IF ~isServiceFile(normalizeFilePath(f)) THEN TRUE
    ELSE normalizeFilePath(f) \in cs.newFiles

\* loader.IsNewFile
IsNewFile(f) ==
    IF globalChangeSet.IsNil THEN TRUE
    ELSE ChangeSet_IsNewFile(globalChangeSet, f)

InitBuilderIdle == runs = <<>>

\* The ordering check without a change set: the maps of one resource file.
InitOrder ==
    /\ \E n \in 0..MaxFields :
         \E ns \in NameLists(n), si \in [1..n -> SchemaInfos] : fields = SchemaMap(ns, si)
    /\ pcN = "ready"
    /\ outcome = "none"
    /\ expectedOrder = <<>>
    /\ reports = <<>>
    /\ globalChangeSet = NilChangeSet
    /\ filename = FileAccountResource
    /\ smap = <<>>
    /\ InitBuilderIdle
    /\ InitCacheIdle
    /\ InitTracerIdle

\* The Preorder callback of runAZNR001 on one composite literal (lines 105-167);
\* whether the literal is a schema map (130) and whether it is nested (141-153)
\* are facts about the syntax tree, drawn here.
runAZNR001 ==
    /\ pcN = "ready"
    /\ pcN' = "done"
    /\ \E isSchemaMap \in BOOLEAN, isNested \in BOOLEAN :
        IF ~IsNewFile(filename)
        THEN outcome' = "skipped" /\ UNCHANGED <<expectedOrder, reports>>
        ELSE IF filename.suffix \notin aznr001FileSuffix
        THEN outcome' = "skipped" /\ UNCHANGED <<expectedOrder, reports>>
        ELSE IF ~isSchemaMap
        THEN outcome' = "skipped" /\ UNCHANGED <<expectedOrder, reports>>
        ELSE IF Len(fields) = 0
        THEN outcome' = "empty" /\ UNCHANGED <<expectedOrder, reports>>
        ELSE IF isNested
        THEN outcome' = "skipped" /\ UNCHANGED <<expectedOrder, reports>>
        ELSE LET r == checkAZNR001OrderingIssues(fields)
             IN /\ outcome' = "checked"
                /\ expectedOrder' = r[1]
                /\ reports' = IF r[2] # ""
                              THEN Append(reports, [issue |-> r[2],
                                                    expected |-> r[1],
                                                    actual |-> FieldOrder(fields)])
                              ELSE reports
    /\ UNCHANGED <<fields, globalChangeSet, filename, smap, runs, cacheVars, tracerVars>>

NextOrder == runAZNR001

SpecOrder == InitOrder /\ [][NextOrder]_vars

\* The ordering check under a loaded change set: any analysed file, any
\* change set LoadChanges can have stored.
InitChange ==
    /\ \E n \in 0..MaxChangedFields :
         \E ns \in NameLists(n), si \in [1..n -> SchemaInfos] : fields = SchemaMap(ns, si)
    /\ pcN = "ready"
    /\ outcome = "none"
    /\ expectedOrder = <<>>
    /\ reports = <<>>
    /\ globalChangeSet \in LoadedChangeSets
    /\ filename \in AnalyzedFiles
    /\ smap = <<>>
    /\ InitBuilderIdle
    /\ InitCacheIdle
    /\ InitTracerIdle

SpecChange == InitChange /\ [][NextOrder]_vars

\* The order builder applied repeatedly to one input.
InitBuilder ==
    /\ \E n \in 0..MaxFields :
         \E ns \in NameLists(n), si \in [1..n -> SchemaInfos] : fields = SchemaMap(ns, si)
    /\ pcN = "build"
    /\ outcome = "none"
    /\ expectedOrder = <<>>
    /\ reports = <<>>
    /\ globalChangeSet = NilChangeSet
    /\ filename = FileAccountResource
    /\ smap = <<>>
    /\ InitBuilderIdle
    /\ InitCacheIdle
    /\ InitTracerIdle

\* One call of getAZNR001ExpectedOrder(fields)
Build ==
    /\ pcN = "build"
    /\ Len(runs) < MaxRuns
    /\ runs' = Append(runs, getAZNR001ExpectedOrder(fields))
    /\ UNCHANGED <<fields, pcN, outcome, expectedOrder, reports, globalChangeSet, filename, smap,
                   cacheVars, tracerVars>>

NextBuilder == Build

SpecBuilder == InitBuilder /\ [][NextBuilder]_vars

\* The author of a map that got a Finding declares the same fields again in
\* the reported expected order (lines 156-166), and the map is analysed anew.
Redeclare ==
    /\ pcN = "done"
    /\ outcome = "checked"
    /\ Len(reports) = 1
    /\ runs = <<>>
    /\ fields' = [i \in 1..Len(fields) |->
                     fields[CHOOSE j \in 1..Len(fields) :
                                fields[j].Name = reports[1].expected[i]]]
    /\ runs' = <<reports[1].expected>>
    /\ pcN' = "ready"
    /\ outcome' = "none"
    /\ UNCHANGED <<expectedOrder, reports, globalChangeSet, filename, smap, cacheVars, tracerVars>>

NextRedeclare == runAZNR001 \/ Redeclare

SpecRedeclare == InitOrder /\ [][NextRedeclare]_vars

(***************************************************************************)
(* Part B.  The schema map extractor                                       *)
(***************************************************************************)
\* An element of the map literal: a key/value pair whose key is a string
\* constant (ExprStringValue gives its value) or not (key ""), and whose value
\* is a composite literal, a call, or an expression of another shape
\* (&pluginsdk.Schema{...} is a unary expression, an identifier, ...);
\* info is what NewSchemaInfo or resolveSchemaInfoFromCall gives for it.
KeyValueExpr(key, shape, si) == [key |-> key, shape |-> shape, info |-> si]

ValueExprs ==
    { [shape |-> "composite", info |-> Flags(TRUE, FALSE, FALSE)],
      [shape |-> "composite", info |-> Flags(FALSE, TRUE, FALSE)],
      [shape |-> "call", info |-> Flags(TRUE, FALSE, FALSE)],
      [shape |-> "call", info |-> NilInfo],
      [shape |-> "other", info |-> NilInfo] }

Elts ==
    {KeyValueExpr(k, v.shape, v.info) : k \in NameSet, v \in ValueExprs}
        \cup {KeyValueExpr("", "composite", Flags(TRUE, FALSE, FALSE))}

\* Map literals: the constant keys of a Go map literal are distinct
MapLits(n) ==
    {m \in [1..n -> Elts] : \A i, j \in 1..n : (i # j /\ m[i].key # "") => m[i].key # m[j].key}

\* ExtractSchemaInfoFromMap / ExtractFromCompositeLit: the loop over smap.Elts
ExtractSchemaInfoFromMap(elts) ==
    LET kept == SelectSeq(elts, LAMBDA e : e.key # "" /\ e.shape \in {"composite", "call"})
    IN [i \in 1..Len(kept) |-> SchemaFieldInfo(kept[i].key, kept[i].info)]

\* Schema map literals of a new resource file, before extraction.
InitExtract ==
    /\ \E n \in 0..MaxOrderFields : smap \in MapLits(n)
    /\ fields = <<>>
    /\ pcN = "literal"
    /\ outcome = "none"
    /\ expectedOrder = <<>>
    /\ reports = <<>>
    /\ globalChangeSet = NilChangeSet
    /\ filename = FileAccountResource
    /\ InitBuilderIdle
    /\ InitCacheIdle
    /\ InitTracerIdle

\* The Preorder callback of runAZNR001 on a schema map literal (lines
\* 105-167), the extraction of its fields (line 135) included.
runAZNR001OnLiteral ==
    /\ pcN = "literal"
    /\ pcN' = "done"
    /\ \E isNested \in BOOLEAN :
        IF ~IsNewFile(filename) \/ filename.suffix \notin aznr001FileSuffix
        THEN outcome' = "skipped" /\ UNCHANGED <<fields, expectedOrder, reports>>
        ELSE LET extracted == ExtractSchemaInfoFromMap(smap)
             IN /\ fields' = extracted
                /\ IF Len(extracted) = 0
                   THEN outcome' = "empty" /\ UNCHANGED <<expectedOrder, reports>>
                   ELSE IF isNested
                   THEN outcome' = "skipped" /\ UNCHANGED <<expectedOrder, reports>>
                   ELSE LET r == checkAZNR001OrderingIssues(extracted)
                        IN /\ outcome' = "checked"
                           /\ expectedOrder' = r[1]
                           /\ reports' = IF r[2] # ""
                                         THEN Append(reports, [issue |-> r[2],
                                                               expected |-> r[1],
                                                               actual |-> FieldOrder(extracted)])
                                         ELSE reports
    /\ UNCHANGED <<globalChangeSet, filename, smap, runs, cacheVars, tracerVars>>

NextExtract == runAZNR001OnLiteral

SpecExtract == InitExtract /\ [][NextExtract]_vars

(***************************************************************************)
(* Part B.  Properties of the ordering check                               *)
(***************************************************************************)
Checked == pcN = "done" /\ outcome = "checked"

Resolved(f) == ~f.SchemaInfo.IsNil

HasFlag(f) == f.SchemaInfo.Required \/ f.SchemaInfo.Optional \/ f.SchemaInfo.Computed

\* The builder's output for the map under analysis.
Built == getAZNR001ExpectedOrder(fields)

\* e holds each name of a exactly once and no other name.
IsPermutationOf(e, a) ==
    /\ Len(e) = Len(a)
    /\ Range(e) = Range(a)
    /\ \A i, j \in 1..Len(e) : i # j => e[i] # e[j]

\* Membership of the groups of the expected order: `tags` and a `location`
\* with Computed set have places of their own; Required decides before Optional.
IsMovedLocation(f) == f.Name = fieldLocation /\ Resolved(f) /\ f.SchemaInfo.Computed

InRequiredGroup(f) ==
    Resolved(f) /\ f.SchemaInfo.Required /\ f.Name # fieldTags /\ ~IsMovedLocation(f)

InOptionalGroup(f) ==
    /\ Resolved(f) /\ f.SchemaInfo.Optional /\ ~f.SchemaInfo.Required
    /\ f.Name # fieldTags /\ ~IsMovedLocation(f)

DeclaredRequired == FieldOrder(SelectSeq(fields, InRequiredGroup))

DeclaredOptional == FieldOrder(SelectSeq(fields, InOptionalGroup))

\* The segments of the builder's output that hold the two groups.
RequiredGroup == SubSeq(Built, 1, Len(DeclaredRequired))

OptionalGroup ==
    SubSeq(Built, Len(DeclaredRequired) + 1, Len(DeclaredRequired) + Len(DeclaredOptional))

Ascending(s) == \A i \in 1..(Len(s) - 1) : ~StrGreater(s[i], s[i + 1])

AllResolved == \A i \in 1..Len(fields) : Resolved(fields[i])

Exempt == hasOptionalNameWithExactlyOneOf(fields)

DiffersFromDeclared(e) == \E i \in 1..Len(fields) : fields[i].Name # e[i]

\* C5 (as claimed): a map with an unresolved descriptor never gets a Finding,
\* whichever field is the unresolved one.
C5_UnresolvedNoFinding ==
    (pcN = "done" /\ ~AllResolved) => reports = <<>>

\* C6 (as claimed): with all descriptors resolved the expected order is a
\* permutation of the declared names, for every combination of flags.
C6_PermutationAnyFlags ==
    (Checked /\ AllResolved) => IsPermutationOf(Built, FieldOrder(fields))

\* C6 (amended): with all descriptors resolved and at least one of
\* Required/Optional/Computed set on every field other than `tags`, the
\* expected order holds each declared name exactly once and no other name.
C6_PermutationWhenClassified ==
    (/\ Checked
     /\ AllResolved
     /\ \A i \in 1..Len(fields) : fields[i].Name # fieldTags => HasFlag(fields[i]))
        => IsPermutationOf(Built, FieldOrder(fields))

\* C6 witness: a checked map with tags, a computed location and a required
\* field, declared out of order, whose expected order was built.
C6_Witness ==
    /\ Checked /\ AllResolved /\ ~Exempt
    /\ FieldOrder(fields) = <<fieldTags, fieldLocation, fieldResourceGroupName>>
    /\ fields[2].SchemaInfo = Flags(FALSE, FALSE, TRUE)
    /\ fields[3].SchemaInfo = Flags(TRUE, FALSE, FALSE)
    /\ HasFlag(fields[1])
    /\ expectedOrder = <<fieldResourceGroupName, fieldLocation, fieldTags>>

\* C7: for a map that is checked, not exempt, and whose expected order is as
\* long as the declared order: one Finding, carrying the declared order as
\* actual and the builder's output as expected, if the two differ at some
\* index; no Finding if they are equal.
C7_OneFindingIffDiffers ==
    (Checked /\ ~Exempt /\ Len(Built) = Len(fields)) =>
        IF DiffersFromDeclared(Built)
        THEN /\ Len(reports) = 1
             /\ reports[1].actual = FieldOrder(fields)
             /\ reports[1].expected = Built
        ELSE reports = <<>>

\* C7 witness: a Finding for a map whose first field is in place and whose
\* second and third are exchanged.
C7_Witness ==
    /\ Checked /\ ~Exempt
    /\ Len(fields) = 3
    /\ Len(reports) = 1
    /\ reports[1].actual = FieldOrder(fields)
    /\ reports[1].expected[1] = fields[1].Name
    /\ reports[1].expected[2] = fields[3].Name
    /\ reports[1].expected[3] = fields[2].Name

IndexOf(n) == CHOOSE i \in 1..Len(fields) : fields[i].Name = n

Exchange(s, a, b) ==
    [i \in 1..Len(s) |-> IF s[i] = a THEN b ELSE IF s[i] = b THEN a ELSE s[i]]

\* C8: the required group (the fields with Required set, `tags` and a
\* `location` with Computed set apart) is the declared order of those fields,
\* with `location` and `resource_group_name` exchanged when both are in the
\* group and `location` is declared first, and unchanged in every other case.
C8_RequiredGroupOrder ==
    Checked =>
        IF /\ fieldLocation \in Range(DeclaredRequired)
           /\ fieldResourceGroupName \in Range(DeclaredRequired)
           /\ IndexOf(fieldLocation) < IndexOf(fieldResourceGroupName)
        THEN RequiredGroup = Exchange(DeclaredRequired, fieldLocation, fieldResourceGroupName)
        ELSE RequiredGroup = DeclaredRequired

\* C8 witness: location, name, resource_group_name, all required, in that
\* declared order: the outer two are exchanged, name stays in the middle.
C8_Witness ==
    /\ Checked
    /\ DeclaredRequired = <<fieldLocation, fieldName, fieldResourceGroupName>>
    /\ expectedOrder = <<fieldResourceGroupName, fieldName, fieldLocation>>
    /\ Len(reports) = 1

\* C9: when the map declares `tags`, whatever its descriptor, `tags` is the
\* last element of the expected order and occurs nowhere else in it.
C9_TagsLast ==
    (Checked /\ fieldTags \in Range(FieldOrder(fields))) =>
        /\ Built # <<>>
        /\ Last(Built) = fieldTags
        /\ \A i \in 1..(Len(Built) - 1) : Built[i] # fieldTags

\* C9 witness: {resource_group_name: optional, tags: optional, name: required}
\* was checked and gave [name, resource_group_name, tags].
C9_Witness ==
    /\ Checked
    /\ fields = SchemaMap(<<fieldResourceGroupName, fieldTags, fieldName>>,
                          <<Flags(FALSE, TRUE, FALSE), Flags(FALSE, TRUE, FALSE),
                            Flags(TRUE, FALSE, FALSE)>>)
    /\ expectedOrder = <<fieldName, fieldResourceGroupName, fieldTags>>

\* Some field with Optional set is declared before the first field with
\* Required set.
OptionalDeclaredBeforeRequired ==
    \E i, k \in 1..Len(fields) :
        /\ Resolved(fields[i]) /\ fields[i].SchemaInfo.Optional
        /\ Resolved(fields[k]) /\ fields[k].SchemaInfo.Required
        /\ \A j \in 1..i : ~(Resolved(fields[j]) /\ fields[j].SchemaInfo.Required)

\* C10: the optional group (the fields with Optional and not Required set,
\* `tags` and a `location` with Computed set apart) keeps its declared order
\* if some optional field is declared before the first required field, and
\* is in ascending order otherwise.
C10_OptionalGroupOrder ==
    Checked =>
        /\ Range(OptionalGroup) = Range(DeclaredOptional)
        /\ IF OptionalDeclaredBeforeRequired
           THEN OptionalGroup = DeclaredOptional
           ELSE Ascending(OptionalGroup)

\* C10 witness: an optional field before the first required one, and the
\* optional group left in its declared, descending order.
C10_Witness ==
    /\ Checked
    /\ FieldOrder(fields) = <<fieldResourceGroupName, fieldName, fieldLocation>>
    /\ DeclaredOptional = <<fieldResourceGroupName, fieldLocation>>
    /\ expectedOrder = <<fieldName, fieldResourceGroupName, fieldLocation>>

DeclaresOptionalName ==
    \E i \in 1..Len(fields) :
        /\ fields[i].Name = fieldName
        /\ Resolved(fields[i])
        /\ fields[i].SchemaInfo.Optional

\* The builder's order has the declared length and differs from the
\* declared order: what the validator reports when nothing exempts the map.
WouldBeReported ==
    /\ Len(Built) = Len(fields)
    /\ DiffersFromDeclared(Built)

\* C18: a schema map declaring a `name` field whose descriptor is Optional
\* yields no Finding, in whatever order its fields are declared.
C18_OptionalNameExempt ==
    (pcN = "done" /\ DeclaresOptionalName) => reports = <<>>

\* A map with an Optional and Computed `name`, declared in an order the
\* builder would not accept, went through the check without a Finding.
C18_Witness ==
    /\ pcN = "done"
    /\ outcome = "checked"
    /\ DeclaresOptionalName
    /\ \E i \in 1..Len(fields) : fields[i].Name = fieldName /\ fields[i].SchemaInfo.Computed
    /\ WouldBeReported
    /\ reports = <<>>

\* Of the names maps are drawn from, the ones ending in `_id` or `_name`.
EndsInIdOrName(n) == n = fieldResourceGroupName

\* The map declares an Optional + Computed field named *_id or *_name (the
\* descriptor's ForceNew is not read by the check, so it may be set).
DeclaresAlternateId ==
    \E i \in 1..Len(fields) :
        /\ EndsInIdOrName(fields[i].Name)
        /\ Resolved(fields[i])
        /\ fields[i].SchemaInfo.Optional
        /\ fields[i].SchemaInfo.Computed
        /\ ~fields[i].SchemaInfo.Required

\* C19 (as claimed): a schema map declaring an Optional + Computed + ForceNew
\* field whose name ends in `_id` or `_name` yields no Finding.
C19_AlternateIdExempt ==
    (pcN = "done" /\ DeclaresAlternateId) => reports = <<>>

\* Change filtering is active: a change set with a changed service file is loaded.
FilterActive == ~globalChangeSet.IsNil /\ globalChangeSet.changedFiles # {}

\* C20 (as claimed): while change filtering is active, a Finding is emitted
\* only for a map whose file the change set records as newly added.
C20_NewFilesOnly ==
    (FilterActive /\ reports # <<>>) => normalizeFilePath(filename) \in globalChangeSet.newFiles

(***************************************************************************)
(* Part C.  AZC006: ID provenance tracer, expected order and reporter.     *)
(* passes/AZC006/AZC006_test.go holds two revisions of the analyzer, at    *)
(* lines 15-680 and at lines 682-1619; `revision` says which one runs.     *)
(*                                                                         *)
(* A Go identifier is the sequence of its humps, each starting at an       *)
(* upper-case letter (ResourceGroupName = <<"Resource","Group","Name">>,   *)
(* ID = <<"I","D">>, subId = <<"sub","Id">>), so that prefixes, suffixes   *)
(* and toSnakeCase are computed from the name.                             *)
(***************************************************************************)
Revisions == {1, 2}

\* Identifiers of the analyzer and of the analysed code (testdata/src/a,
\* unnamed/part_004, unnamed/part_005), by their Go spelling
GoName ==
    [ d |-> <<"d">>,
      meta |-> <<"meta">>,
      metadata |-> <<"metadata">>,
      parse |-> <<"parse">>,
      model |-> <<"model">>,
      resp |-> <<"resp">>,
      Get |-> <<"Get">>,
      SetId |-> <<"Set", "Id">>,
      SetID |-> <<"Set", "I", "D">>,
      ID |-> <<"I", "D">>,
      id |-> <<"id">>,
      otherId |-> <<"other", "Id">>,
      name |-> <<"name">>,
      resourceGroupName |-> <<"resource", "Group", "Name">>,
      subscriptionId |-> <<"subscription", "Id">>,
      subId |-> <<"sub", "Id">>,
      someExternalValue |-> <<"some", "External", "Value">>,
      Name |-> <<"Name">>,
      ResourceGroupName |-> <<"Resource", "Group", "Name">>,
      getFromSomewhere |-> <<"get", "From", "Somewhere">>,
      NewResourceID |-> <<"New", "Resource", "I", "D">>,
      ParseResourceID |-> <<"Parse", "Resource", "I", "D">>,
      SasDefinitionID |-> <<"Sas", "Definition", "I", "D">>,
      resourceCreate |-> <<"resource", "Create">>,
      dataSourceRead |-> <<"data", "Source", "Read">>,
      parentId |-> <<"parent", "Id">>,
      apiClient |-> <<"api", "Client">>,
      parseParentResourceId |-> <<"parse", "Parent", "Resource", "Id">>,
      routeTableId |-> <<"route", "Table", "Id">>,
      SubscriptionId |-> <<"Subscription", "Id">>,
      ParseHubRouteTableID |-> <<"Parse", "Hub", "Route", "Table", "I", "D">>,
      resourceCreateUpdate |-> <<"resource", "Create", "Update">> ]

\* strings.ToLower, on one hump
ToLower(h) ==
    CASE h = "Get" -> "get"
      [] h = "Set" -> "set"
      [] h = "Id" -> "id"
      [] h = "I" -> "i"
      [] h = "D" -> "d"
      [] h = "Name" -> "name"
      [] h = "Group" -> "group"
      [] h = "Resource" -> "resource"
      [] h = "External" -> "external"
      [] h = "Value" -> "value"
      [] h = "From" -> "from"
      [] h = "Somewhere" -> "somewhere"
      [] h = "New" -> "new"
      [] h = "Parse" -> "parse"
      [] h = "Sas" -> "sas"
      [] h = "Definition" -> "definition"
      [] h = "Create" -> "create"
      [] h = "Source" -> "source"
      [] h = "Read" -> "read"
      [] h = "Parent" -> "parent"
      [] h = "Client" -> "client"
      [] h = "Table" -> "table"
      [] h = "Subscription" -> "subscription"
      [] h = "Hub" -> "hub"
      [] h = "Route" -> "route"
      [] h = "Update" -> "update"
      [] OTHER -> h

\* strings.HasPrefix(name, "New") / (name, "Parse") / strings.HasSuffix(name, "ID")
HasPrefixNew(n) == Len(n) >= 1 /\ n[1] = "New"

HasPrefixParse(n) == Len(n) >= 1 /\ n[1] = "Parse"

HasSuffixID(n) == Len(n) >= 2 /\ n[Len(n) - 1] = "I" /\ n[Len(n)] = "D"

\* strings.Contains(name, "Create") and the like, on whole humps
ContainsHump(n, h) == \E i \in 1..Len(n) : n[i] = h

\* strings.Contains(strings.ToLower(name), "subscription")
ContainsSubscription(n) == \E i \in 1..Len(n) : ToLower(n[i]) = "subscription"

\* toSnakeCase: an underscore before every upper-case letter but the first,
\* then lower case
RECURSIVE toSnakeCase(_)
toSnakeCase(n) ==
    IF Len(n) = 0 THEN ""
    ELSE IF Len(n) = 1 THEN ToLower(n[1])
    ELSE ToLower(n[1]) \o "_" \o toSnakeCase(Tail(n))

\* ast.Expr, as far as the tracer tells expressions apart
Ident(x) == [kind |-> "ident", x |-> x, sel |-> <<>>, lit |-> "", args |-> <<>>]

\* x.Sel; x is <<>> when the operand is not an identifier
Selector(x, sel) == [kind |-> "selector", x |-> x, sel |-> sel, lit |-> "", args |-> <<>>]

StringLit(v) == [kind |-> "lit", x |-> <<>>, sel |-> <<>>, lit |-> v, args |-> <<>>]

\* x.Sel(args): a call whose Fun is a selector
MethodCall(x, sel, args) == [kind |-> "call", x |-> x, sel |-> sel, lit |-> "", args |-> args]

\* f(args): a call whose Fun is an identifier
FuncCall(f, args) == [kind |-> "funccall", x |-> <<>>, sel |-> f, lit |-> "", args |-> args]

\* d.Get("field").(string)
DGet(f) == MethodCall(GoName.d, GoName.Get, <<StringLit(f)>>)

\* ast.Stmt: an assignment with one identifier on the left, or a call statement
Assign(lhs, rhs) == [kind |-> "assign", lhs |-> lhs, rhs |-> rhs]

ExprStmt(call) == [kind |-> "expr", lhs |-> <<>>, rhs |-> call]

FuncDecl2(name, body) == [name |-> name, body |-> body]

\* map[string]string and map[string][]string, as functions
EmptyMap == [k \in {} |-> ""]

MapPut(m, k, v) == [x \in (DOMAIN m) \cup {k} |-> IF x = k THEN v ELSE m[x]]

\* extractFieldNameFromDGet
extractFieldNameFromDGet(e) ==
    IF /\ e.kind = "call"
       /\ e.sel = GoName.Get
       /\ e.x = GoName.d
       /\ Len(e.args) > 0
       /\ e.args[1].kind = "lit"
    THEN e.args[1].lit
    ELSE ""

\* extractFieldNameFromModelAccess
extractFieldNameFromModelAccess(e, modelFieldMapping) ==
    IF e.kind # "selector" THEN ""
    ELSE IF e.sel \in DOMAIN modelFieldMapping THEN modelFieldMapping[e.sel]
    ELSE toSnakeCase(e.sel)

\* extractFieldNameFromArg
extractFieldNameFromArg(e, modelFieldMapping) ==
    IF extractFieldNameFromDGet(e) # "" THEN extractFieldNameFromDGet(e)
    ELSE extractFieldNameFromModelAccess(e, modelFieldMapping)

\* variableResolver
VariableResolver(varToField, idVarAssignments, parentIDFields, modelFieldMapping) ==
    [varToField |-> varToField, idVarAssignments |-> idVarAssignments,
     parentIDFields |-> parentIDFields, modelFieldMapping |-> modelFieldMapping]

\* (r *variableResolver) resolveFieldName
resolveFieldName(r, e) ==
    IF extractFieldNameFromArg(e, r.modelFieldMapping) # ""
    THEN extractFieldNameFromArg(e, r.modelFieldMapping)
    ELSE IF e.kind = "ident" /\ e.x \in DOMAIN r.varToField THEN r.varToField[e.x]
    ELSE ""

\* revision 1, lines 430-444: the first argument looks like a subscription id
SuggestsSubscription(arg) ==
    \/ arg.kind = "selector" /\ ContainsSubscription(arg.sel)
    \/ arg.kind = "ident" /\ ContainsSubscription(arg.x)

\* (r *variableResolver) resolveFieldsFromArgs, from argument i on
RECURSIVE resolveFieldsFromArgsAt(_, _, _, _, _)
resolveFieldsFromArgsAt(r, args, i, flds, rev) ==
    IF i > Len(args) THEN flds
    ELSE LET resolved == resolveFieldName(r, args[i])
         IN IF rev = 1 /\ i = 1 /\ resolved = "" /\ SuggestsSubscription(args[i])
            THEN resolveFieldsFromArgsAt(r, args, i + 1, flds, rev)
            ELSE IF resolved \in Range(flds)
            THEN resolveFieldsFromArgsAt(r, args, i + 1, flds, rev)
            ELSE resolveFieldsFromArgsAt(r, args, i + 1, Append(flds, resolved), rev)

resolveFieldsFromArgs(r, args, rev) == resolveFieldsFromArgsAt(r, args, 1, <<>>, rev)

\* revision 2: (r *variableResolver) resolveFieldsFromArgsIgnoringParent
RECURSIVE resolveFieldsFromArgsIgnoringParentAt(_, _, _, _, _)
resolveFieldsFromArgsIgnoringParentAt(r, args, parentIDVar, i, flds) ==
    IF i > Len(args) THEN flds
    ELSE IF args[i].kind = "selector" /\ args[i].x = parentIDVar
    THEN resolveFieldsFromArgsIgnoringParentAt(r, args, parentIDVar, i + 1, flds)
    ELSE LET resolved == resolveFieldName(r, args[i])
         IN IF resolved # "" /\ resolved \notin Range(flds)
            THEN resolveFieldsFromArgsIgnoringParentAt(r, args, parentIDVar, i + 1,
                                                       Append(flds, resolved))
            ELSE resolveFieldsFromArgsIgnoringParentAt(r, args, parentIDVar, i + 1, flds)

resolveFieldsFromArgsIgnoringParent(r, args, parentIDVar) ==
    resolveFieldsFromArgsIgnoringParentAt(r, args, parentIDVar, 1, <<>>)

\* revision 2, lines 1187-1196: the arguments that are x.Sel with x an identifier
ParentArgs(args) == {i \in 1..Len(args) : args[i].kind = "selector" /\ args[i].x # <<>>}

\* newVariableResolver, revision 1: one assignment (lines 386-413)
VisitAssign1(r, s) ==
    IF extractFieldNameFromArg(s.rhs, r.modelFieldMapping) # ""
    THEN VariableResolver(
             MapPut(r.varToField, s.lhs, extractFieldNameFromArg(s.rhs, r.modelFieldMapping)),
             r.idVarAssignments, r.parentIDFields, r.modelFieldMapping)
    ELSE IF /\ s.rhs.kind = "call"
            /\ \/ HasPrefixNew(s.rhs.sel) /\ HasSuffixID(s.rhs.sel)
               \/ HasPrefixParse(s.rhs.sel) /\ HasSuffixID(s.rhs.sel)
    THEN VariableResolver(
             r.varToField,
             MapPut(r.idVarAssignments, s.lhs, resolveFieldsFromArgs(r, s.rhs.args, 1)),
             r.parentIDFields, r.modelFieldMapping)
    ELSE r

\* newVariableResolver, revision 2: one assignment (lines 1143-1215)
VisitAssign2(r, s) ==
    IF extractFieldNameFromArg(s.rhs, r.modelFieldMapping) # ""
    THEN VariableResolver(
             MapPut(r.varToField, s.lhs, extractFieldNameFromArg(s.rhs, r.modelFieldMapping)),
             r.idVarAssignments, r.parentIDFields, r.modelFieldMapping)
    ELSE IF s.rhs.kind = "call" /\ HasPrefixParse(s.rhs.sel) /\ HasSuffixID(s.rhs.sel)
    THEN IF /\ Len(s.rhs.args) > 0
            /\ extractFieldNameFromArg(s.rhs.args[1], r.modelFieldMapping) # ""
         THEN VariableResolver(
                  r.varToField, r.idVarAssignments,
                  MapPut(r.parentIDFields, s.lhs,
                         extractFieldNameFromArg(s.rhs.args[1], r.modelFieldMapping)),
                  r.modelFieldMapping)
         ELSE r
    ELSE IF s.rhs.kind = "call" /\ HasPrefixNew(s.rhs.sel) /\ HasSuffixID(s.rhs.sel)
    THEN IF ParentArgs(s.rhs.args) # {}
         THEN LET first == CHOOSE i \in ParentArgs(s.rhs.args) :
                               \A j \in ParentArgs(s.rhs.args) : i <= j
                  parentIDVar == s.rhs.args[first].x
                  direct == resolveFieldsFromArgsIgnoringParent(r, s.rhs.args, parentIDVar)
                  flds == IF parentIDVar \in DOMAIN r.parentIDFields
                            THEN Append(direct, r.parentIDFields[parentIDVar])
                            ELSE direct
              IN VariableResolver(r.varToField, MapPut(r.idVarAssignments, s.lhs, flds),
                                  r.parentIDFields, r.modelFieldMapping)
         ELSE VariableResolver(
                  r.varToField,
                  MapPut(r.idVarAssignments, s.lhs, resolveFieldsFromArgs(r, s.rhs.args, 2)),
                  r.parentIDFields, r.modelFieldMapping)
    ELSE r

\* newVariableResolver: ast.Inspect over the assignments of the body, in order
RECURSIVE newVariableResolverFrom(_, _, _)
newVariableResolverFrom(stmts, r, rev) ==
    IF stmts = <<>> THEN r
    ELSE IF stmts[1].kind # "assign" THEN newVariableResolverFrom(Tail(stmts), r, rev)
    ELSE newVariableResolverFrom(Tail(stmts),
                                 IF rev = 1 THEN VisitAssign1(r, stmts[1])
                                 ELSE VisitAssign2(r, stmts[1]),
                                 rev)

\* A resolver that visits the assignments from the last to the first.
newVariableResolver_LastFirst(funcDecl, modelFieldMapping, rev) ==
    newVariableResolverFrom([i \in 1..Len(funcDecl.body) |->
                                 funcDecl.body[Len(funcDecl.body) + 1 - i]],
                            VariableResolver(EmptyMap, EmptyMap, EmptyMap, modelFieldMapping),
                            rev)

newVariableResolver(funcDecl, modelFieldMapping, rev) ==
    newVariableResolverFrom(funcDecl.body,
                            VariableResolver(EmptyMap, EmptyMap, EmptyMap, modelFieldMapping),
                            rev)

\* (r *variableResolver) extractFieldsFromIDArg, revision 1 (lines 474-503)
extractFieldsFromIDArg1(r, e) ==
    IF e.kind = "ident" /\ e.x \in DOMAIN r.idVarAssignments THEN r.idVarAssignments[e.x]
    ELSE IF e.kind = "ident" /\ e.x \in DOMAIN r.varToField THEN <<r.varToField[e.x]>>
    ELSE IF e.kind = "call" /\ e.sel = GoName.ID /\ e.x \in DOMAIN r.idVarAssignments
    THEN r.idVarAssignments[e.x]
    ELSE IF e.kind = "call" /\ e.sel = GoName.ID /\ e.x \in DOMAIN r.varToField
    THEN <<r.varToField[e.x]>>
    ELSE <<>>

\* (r *variableResolver) extractFieldsFromIDArg, revision 2 (lines 1289-1321)
extractFieldsFromIDArg2(r, e) ==
    IF e.kind = "ident" /\ e.x \in DOMAIN r.idVarAssignments THEN r.idVarAssignments[e.x]
    ELSE IF e.kind = "call" /\ HasPrefixNew(e.sel) /\ HasSuffixID(e.sel)
    THEN resolveFieldsFromArgs(r, e.args, 2)
    ELSE IF e.kind = "call" /\ e.sel = GoName.ID /\ e.x \in DOMAIN r.idVarAssignments
    THEN r.idVarAssignments[e.x]
    ELSE <<>>

extractFieldsFromIDArg(r, e, rev) ==
    IF rev = 1 THEN extractFieldsFromIDArg1(r, e) ELSE extractFieldsFromIDArg2(r, e)

\* isSetIDCall
isSetIDCall(call) ==
    /\ call.kind = "call"
    /\ call.sel \in {GoName.SetID, GoName.SetId}
    /\ call.x \in {GoName.metadata, GoName.meta, GoName.d}

\* idFields = append(idFields, field) for the flds not seen yet
RECURSIVE AppendUnseen(_, _)
AppendUnseen(ids, flds) ==
    IF flds = <<>> THEN ids
    ELSE IF flds[1] \in Range(ids) THEN AppendUnseen(ids, Tail(flds))
    ELSE AppendUnseen(Append(ids, flds[1]), Tail(flds))

\* revision 1, lines 345-353: one loop that returns at the first empty name
RECURSIVE AppendUntilEmpty(_, _)
AppendUntilEmpty(ids, flds) ==
    IF flds = <<>> THEN ids
    ELSE IF flds[1] = "" THEN ids
    ELSE IF flds[1] \in Range(ids) THEN AppendUntilEmpty(ids, Tail(flds))
    ELSE AppendUntilEmpty(Append(ids, flds[1]), Tail(flds))

\* revision 2, lines 1097-1108: a loop that returns on an empty name, then the appends
AppendUnlessEmpty(ids, flds) ==
    IF "" \in Range(flds) THEN ids ELSE AppendUnseen(ids, flds)

\* extractIDFieldsFromFile: the SetID/SetId calls of one function body, in order
RECURSIVE ScanSetIDCalls(_, _, _, _)
ScanSetIDCalls(stmts, r, ids, rev) ==
    IF stmts = <<>> THEN ids
    ELSE IF /\ stmts[1].kind = "expr"
            /\ isSetIDCall(stmts[1].rhs)
            /\ Len(stmts[1].rhs.args) > 0
    THEN LET flds == extractFieldsFromIDArg(r, stmts[1].rhs.args[1], rev)
         IN ScanSetIDCalls(Tail(stmts), r,
                           IF rev = 1 THEN AppendUntilEmpty(ids, flds)
                           ELSE AppendUnlessEmpty(ids, flds),
                           rev)
    ELSE ScanSetIDCalls(Tail(stmts), r, ids, rev)

\* extractIDFieldsFromFile: the function declarations of the file, in order
RECURSIVE extractIDFieldsFromFuncs(_, _, _, _, _)
extractIDFieldsFromFuncs(funcs, modelFieldMapping, isDataSource, ids, rev) ==
    IF funcs = <<>> THEN ids
    ELSE IF ~ContainsHump(funcs[1].name, IF isDataSource THEN "Read" ELSE "Create")
    THEN extractIDFieldsFromFuncs(Tail(funcs), modelFieldMapping, isDataSource, ids, rev)
    ELSE extractIDFieldsFromFuncs(
             Tail(funcs), modelFieldMapping, isDataSource,
             ScanSetIDCalls(funcs[1].body,
                            newVariableResolver(funcs[1], modelFieldMapping, rev), ids, rev),
             rev)

extractIDFieldsFromFile(node, modelFieldMapping, isDataSource, rev) ==
    extractIDFieldsFromFuncs(node.funcs, modelFieldMapping, isDataSource, <<>>, rev)

\* schemafields.SchemaField (revision 2: schemaField)
SchemaField(n, r, o, c) == [Name |-> n, Required |-> r, Optional |-> o, Computed |-> c]

\* field.Computed && !field.Optional && !field.Required
ComputedOnly(f) == f.Computed /\ ~f.Optional /\ ~f.Required

\* getExpectedOrder: "Categorize by type"
Categorize(f) ==
    IF ComputedOnly(f) THEN "computed"
    ELSE IF f.Required THEN "required"
    ELSE "optional"

Reverse(s) == [i \in 1..Len(s) |-> s[Len(s) + 1 - i]]

\* The ID fields in the order of the constructor arguments.
IdFieldsList1_TracerOrder(fs, ids, isNested) ==
    LET Keep(n) == \E i \in 1..Len(fs) : fs[i].Name = n /\ ~ComputedOnly(fs[i])
    IN IF isNested THEN <<>> ELSE SelectSeq(ids, Keep)

\* getExpectedOrder, revision 1: idFieldsList (lines 616-627)
IdFieldsList1(fs, ids, isNested) ==
    LET Keep(n) == \E i \in 1..Len(fs) : fs[i].Name = n /\ ~ComputedOnly(fs[i])
    IN IF isNested THEN <<>> ELSE SelectSeq(Reverse(ids), Keep)

\* getExpectedOrder, revision 1: the loop over the flds (lines 629-652)
Category1(f, fs, ids, isNested) ==
    IF f.Name \in Range(IdFieldsList1(fs, ids, isNested)) THEN "id"
    ELSE IF ~isNested /\ f.Name = fieldLocation THEN "location"
    ELSE Categorize(f)

\* getExpectedOrder, revision 2: the loop over the flds (lines 1513-1556)
Category2(f, fs, ids, isNested) ==
    IF ~isNested /\ f.Name \in Range(ids)
    THEN IF ComputedOnly(f) THEN "computed" ELSE "id"
    ELSE IF ~isNested /\ f.Name = fieldLocation
    THEN IF ComputedOnly(f) THEN "computed" ELSE "location"
    ELSE Categorize(f)

Category(f, fs, ids, isNested, rev) ==
    IF rev = 1 THEN Category1(f, fs, ids, isNested) ELSE Category2(f, fs, ids, isNested)

\* The names of the flds of one category, in declaration order
NamesIn(fs, ids, isNested, rev, cat) ==
    LET Is(f) == Category(f, fs, ids, isNested, rev) = cat
    IN FieldOrder(SelectSeq(fs, Is))

IdPrefix(fs, ids, isNested, rev) ==
    IF rev = 1 THEN IdFieldsList1(fs, ids, isNested)
    ELSE NamesIn(fs, ids, isNested, rev, "id")

\* getExpectedOrder
getExpectedOrder(fs, ids, isNested, rev) ==
    IdPrefix(fs, ids, isNested, rev)
    \o NamesIn(fs, ids, isNested, rev, "location")
    \o SortStrings(NamesIn(fs, ids, isNested, rev, "required"))
    \o SortStrings(NamesIn(fs, ids, isNested, rev, "optional"))
    \o SortStrings(NamesIn(fs, ids, isNested, rev, "computed"))

\* areOrdersEqual
areOrdersEqual(actual, expected) ==
    /\ Len(actual) = Len(expected)
    /\ \A i \in 1..Len(actual) : actual[i] = expected[i]

(***************************************************************************)
(* Part C.  The analysed files                                             *)
(***************************************************************************)
\* []schemafields.SchemaField of one map literal, and nestedSchemas[comp]
Literal(fs, nested) == [fields |-> fs, nested |-> nested]

\* *ast.File with its position, and modelmapping.BuildForFile of it
File(path, funcs, mapping, literals) ==
    [path |-> path, funcs |-> funcs, mapping |-> mapping, literals |-> literals]

FileAccountDataSource ==
    Path(<<"home", "repo", "internal", "services", "storage">>, "account", "_data_source.go")

FileSchemaHelper ==
    Path(<<"home", "repo", "internal", "services", "storage">>, "schema", ".go")

\* TypedResourceModel of unnamed/part_005: Go member name -> tfschema tag
TypedResourceModel ==
    MapPut(MapPut(EmptyMap, GoName.Name, fieldName), GoName.ResourceGroupName, fieldResourceGroupName)

\* The bindings the create and read functions of the test data start with
Preamble ==
    << Assign(GoName.resourceGroupName, DGet(fieldResourceGroupName)),
       Assign(GoName.name, DGet(fieldName)),
       Assign(GoName.subscriptionId, StringLit("randomId")),
       Assign(GoName.someExternalValue, FuncCall(GoName.getFromSomewhere, <<>>)) >>

\* The expressions passed to an identifier constructor
ArgExprs ==
    { Ident(GoName.resourceGroupName), Ident(GoName.name), Ident(GoName.subscriptionId), Ident(GoName.subId),
      Ident(GoName.someExternalValue), Selector(GoName.model, GoName.ResourceGroupName),
      Selector(GoName.model, GoName.Name), Selector(GoName.resp, GoName.ID) }

Constructors == {GoName.NewResourceID, GoName.ParseResourceID, GoName.SasDefinitionID}

\* parse.NewResourceID(args) and the like
Construct(ctor, args) == MethodCall(GoName.parse, ctor, args)

\* d.SetId(id), d.SetId(id.ID()), metadata.SetID(parse.NewResourceID(args))
CommitForms == {"variable", "stringify", "direct", "none"}

Commit(form, v, ctor, args) ==
    CASE form = "variable" ->
           <<Assign(v, Construct(ctor, args)), ExprStmt(MethodCall(GoName.d, GoName.SetId, <<Ident(v)>>))>>
      [] form = "stringify" ->
           <<Assign(v, Construct(ctor, args)),
             ExprStmt(MethodCall(GoName.d, GoName.SetId, <<MethodCall(v, GoName.ID, <<>>)>>))>>
      [] form = "direct" ->
           <<ExprStmt(MethodCall(GoName.metadata, GoName.SetID, <<Construct(ctor, args)>>))>>
      [] OTHER -> <<Assign(v, Construct(ctor, args))>>

\* A further commit call of the same function, on an identifier built from
\* resolvable arguments
FurtherCommits ==
    { <<>>,
      Commit("stringify", GoName.otherId, GoName.NewResourceID, <<Ident(GoName.name), DGet(fieldLocation)>>) }

\* The file and its one function: a resource with its Create, a data source
\* with its Read, and a resource that only has a Read
Contexts ==
    { [path |-> FileAccountResource, func |-> GoName.resourceCreate],
      [path |-> FileAccountDataSource, func |-> GoName.dataSourceRead],
      [path |-> FileAccountResource, func |-> GoName.dataSourceRead] }

\* A top-level map declared resource_group_name, name, location, and the
\* element schema of a nested block
LitDeclared ==
    Literal(<<SchemaField(fieldResourceGroupName, TRUE, FALSE, FALSE),
              SchemaField(fieldName, TRUE, FALSE, FALSE),
              SchemaField(fieldLocation, TRUE, FALSE, FALSE)>>, FALSE)

LitElem ==
    Literal(<<SchemaField(fieldName, TRUE, FALSE, FALSE),
              SchemaField(fieldLocation, FALSE, TRUE, FALSE)>>, TRUE)

strings_HasSuffix(path, suffix) == path.suffix = suffix

isResourceFile(path) == strings_HasSuffix(path, "_resource.go")

isDataSourceFile(path) == strings_HasSuffix(path, "_data_source.go")

InitRunStart ==
    /\ idFields = <<>>
    /\ comp = 0
    /\ verdict = [outcome |-> "none", expected |-> <<>>]
    /\ findings = <<>>
    /\ tpc = "start"
    /\ InitCacheIdle
    /\ InitOrderIdle

\* Files whose create or read function binds the test data's variables, builds
\* an identifier from up to MaxArgs arguments and commits it in one of the forms.
InitTracer ==
    /\ revision \in Revisions
    /\ \E n \in 1..MaxArgs :
         \E args \in [1..n -> ArgExprs] :
           /\ \A i, j \in 1..n : i # j => args[i] # args[j]
           /\ \E ctor \in Constructors, form \in CommitForms,
                 further \in FurtherCommits, ctx \in Contexts :
                file = File(ctx.path,
                            <<FuncDecl2(ctx.func,
                                        Preamble \o Commit(form, GoName.id, ctor, args) \o further)>>,
                            TypedResourceModel,
                            <<LitDeclared, LitElem>>)
    /\ InitRunStart

\* run, lines 92-108 (revision 2: 760-778): the ID fields of the file
TraceIDFields ==
    /\ tpc = "start"
    /\ idFields' = IF isResourceFile(file.path) \/ isDataSourceFile(file.path)
                   THEN extractIDFieldsFromFile(file, file.mapping,
                                                isDataSourceFile(file.path), revision)
                   ELSE <<>>
    /\ tpc' = IF file.literals = <<>> THEN "done" ELSE "inspect"
    /\ UNCHANGED <<revision, file, comp, verdict, findings, cacheVars, orderVars>>

\* run, lines 110-212 (revision 2: 780-888): the ast.Inspect callback on the
\* next schema map literal of the file
InspectCompositeLit ==
    /\ tpc = "inspect"
    /\ comp < Len(file.literals)
    /\ comp' = comp + 1
    /\ LET lit == file.literals[comp + 1]
           shouldCheckIDAndLocation ==
               (isResourceFile(file.path) \/ isDataSourceFile(file.path)) /\ ~lit.nested
           effectiveIDFields == IF shouldCheckIDAndLocation THEN idFields ELSE <<>>
           expected == getExpectedOrder(lit.fields, effectiveIDFields,
                                        ~shouldCheckIDAndLocation, revision)
           actualOrder == FieldOrder(lit.fields)
       IN IF Len(lit.fields) = 0
          THEN /\ verdict' = [outcome |-> "empty", expected |-> <<>>]
               /\ UNCHANGED findings
          ELSE IF shouldCheckIDAndLocation /\ Len(idFields) = 0
          THEN /\ verdict' = [outcome |-> "skipped", expected |-> <<>>]
               /\ UNCHANGED findings
          ELSE IF ~areOrdersEqual(actualOrder, expected)
          THEN /\ verdict' = [outcome |-> "reported", expected |-> expected]
               /\ findings' = Append(findings, [comp |-> comp + 1, expectedOrder |-> expected,
                                                actualOrder |-> actualOrder])
          ELSE /\ verdict' = [outcome |-> "ok", expected |-> expected]
               /\ UNCHANGED findings
    /\ tpc' = IF comp + 1 = Len(file.literals) THEN "done" ELSE "inspect"
    /\ UNCHANGED <<revision, file, idFields, cacheVars, orderVars>>

NextTracer == TraceIDFields \/ InspectCompositeLit

SpecTracer == InitTracer /\ [][NextTracer]_vars

(***************************************************************************)
(* Part C.  Identifiers built from schema fields, against declared maps    *)
(***************************************************************************)

\* The fields an identifier is built from
IdNames == {fieldName, fieldResourceGroupName, fieldLocation}

IdLists(n) == {ids \in [1..n -> IdNames] : \A i, j \in 1..n : i # j => ids[i] # ids[j]}

\* id := parse.NewResourceID(d.Get(ids[1]), ...); d.SetId(id.ID())
GetBody(ids) ==
    Commit("stringify", GoName.id, GoName.NewResourceID, [i \in 1..Len(ids) |-> DGet(ids[i])])

\* noSetIDResourceCreate of no_setid_resource.go
NoSetIDBody == <<>>

\* apiParserResourceCreate of parse_from_api_resource.go
ParseFromAPIBody ==
    << Assign(GoName.name, DGet(fieldName)),
       Assign(GoName.parentId, DGet("parent_id")),
       Assign(GoName.resp, MethodCall(GoName.apiClient, GoName.parseParentResourceId,
                                <<Ident(GoName.parentId), Ident(GoName.name)>>)) >>
    \o Commit("stringify", GoName.id, GoName.ParseResourceID, <<Selector(GoName.resp, GoName.ID)>>)

\* Required, Optional and Computed of a declared field
Descriptors ==
    { [Required |-> TRUE, Optional |-> FALSE, Computed |-> FALSE],
      [Required |-> FALSE, Optional |-> TRUE, Computed |-> FALSE],
      [Required |-> FALSE, Optional |-> FALSE, Computed |-> TRUE] }

\* schemafields.ExtractFromCompositeLit: the fields in declaration order
ExtractFromCompositeLit(ns, ds) ==
    [i \in 1..Len(ns) |-> SchemaField(ns[i], ds[i].Required, ds[i].Optional, ds[i].Computed)]

\* A resource, a data source, a resource's nested map and a helper file
MapContexts ==
    { [path |-> FileAccountResource, func |-> GoName.resourceCreate, nested |-> FALSE],
      [path |-> FileAccountDataSource, func |-> GoName.dataSourceRead, nested |-> FALSE],
      [path |-> FileAccountResource, func |-> GoName.resourceCreate, nested |-> TRUE],
      [path |-> FileSchemaHelper, func |-> GoName.resourceCreate, nested |-> FALSE] }

\* Files with one schema map of up to MaxOrderFields fields, whose function
\* builds the identifier from up to MaxIdFields fields read with d.Get, has no
\* SetId call, or parses the identifier from an API response.
InitIdOrder ==
    /\ revision \in Revisions
    /\ \E ctx \in MapContexts :
         \E n \in 1..MaxOrderFields :
           \E ns \in NameLists(n), ds \in [1..n -> Descriptors] :
             \E body \in {NoSetIDBody, ParseFromAPIBody}
                         \cup UNION {{GetBody(ids) : ids \in IdLists(k)} : k \in 1..MaxIdFields} :
                file = File(ctx.path, <<FuncDecl2(ctx.func, body)>>, EmptyMap,
                            <<Literal(ExtractFromCompositeLit(ns, ds), ctx.nested)>>)
    /\ InitRunStart

SpecIdOrder == InitIdOrder /\ [][NextTracer]_vars

(***************************************************************************)
(* Part C.  Identifiers built from the fields of a parent identifier       *)
(***************************************************************************)
\* How the function binds routeTableId: by Parse*ID of a field read (line
\* 1160), by Parse*ID of an unresolvable value, or by another call
ParentBindings ==
    { Assign(GoName.routeTableId,
             Construct(GoName.ParseHubRouteTableID, <<DGet("route_table_id")>>)),
      Assign(GoName.routeTableId,
             Construct(GoName.ParseHubRouteTableID, <<Ident(GoName.someExternalValue)>>)),
      Assign(GoName.routeTableId, FuncCall(GoName.getFromSomewhere, <<>>)) }

\* Constructor arguments: bound and unbound identifiers and member accesses
\* on routeTableId
ParentArgExprs ==
    { Ident(GoName.name), Ident(GoName.resourceGroupName), Ident(GoName.someExternalValue),
      Selector(GoName.routeTableId, GoName.SubscriptionId),
      Selector(GoName.routeTableId, GoName.ResourceGroupName) }

\* Resource files whose create function binds routeTableId and builds the
\* identifier from up to MaxArgs of these arguments.
InitParent ==
    /\ revision \in Revisions
    /\ \E n \in 1..MaxArgs :
         \E args \in [1..n -> ParentArgExprs] :
           /\ \A i, j \in 1..n : i # j => args[i] # args[j]
           /\ \E binding \in ParentBindings, form \in {"variable", "stringify"} :
                file = File(FileAccountResource,
                            <<FuncDecl2(GoName.resourceCreate,
                                        Preamble \o <<binding>>
                                        \o Commit(form, GoName.id, GoName.NewResourceID, args))>>,
                            EmptyMap,
                            <<LitDeclared, LitElem>>)
    /\ InitRunStart

SpecParent == InitParent /\ [][NextTracer]_vars

(***************************************************************************)
(* Part C.  Functions whose statements come in any order                   *)
(***************************************************************************)
\* The statements of a create function: two bindings of name, one of
\* resourceGroupName, the identifier constructor and the commit call
Statements ==
    { Assign(GoName.name, DGet(fieldName)),
      Assign(GoName.name, DGet(fieldLocation)),
      Assign(GoName.resourceGroupName, DGet(fieldResourceGroupName)),
      Assign(GoName.id, Construct(GoName.NewResourceID,
                                  <<Ident(GoName.resourceGroupName), Ident(GoName.name)>>)),
      ExprStmt(MethodCall(GoName.d, GoName.SetId, <<MethodCall(GoName.id, GoName.ID, <<>>)>>)) }

\* Function bodies: up to n of the statements, each at most once, in any order
Bodies(n) ==
    UNION {{b \in [1..k -> Statements] : \A i, j \in 1..k : i # j => b[i] # b[j]} : k \in 0..n}

\* Resource files with two create functions.
InitBinding ==
    /\ revision \in Revisions
    /\ \E b1 \in Bodies(Cardinality(Statements)), b2 \in Bodies(2) :
         file = File(FileAccountResource,
                     <<FuncDecl2(GoName.resourceCreate, b1),
                       FuncDecl2(GoName.resourceCreateUpdate, b2)>>,
                     EmptyMap,
                     <<LitDeclared, LitElem>>)
    /\ InitRunStart

SpecBinding == InitBinding /\ [][NextTracer]_vars

(***************************************************************************)
(* Part B.  passes/AZNR001 (package AZNR001): the check with nested maps   *)
(***************************************************************************)
\* The flags of a schemafields.SchemaField, each set or not
FlagSets == [Required : BOOLEAN, Optional : BOOLEAN, Computed : BOOLEAN]

\* The switch that appends a field to requiredFields, optionalFields or
\* computedFields, or to none of them
FlagCase(f) ==
    IF f.Required THEN "required"
    ELSE IF f.Optional THEN "optional"
    ELSE IF f.Computed THEN "computed"
    ELSE "none"

IsSpecialName(n) == n \in {fieldName, fieldResourceGroupName, fieldLocation}

\* The order that keeps the top-level rules for a nested map.
AZNR001_getExpectedOrder_TopLevelRules(flds, isNested) ==
    LET Special(n) == \E i \in 1..Len(flds) : flds[i].Name = n /\ flds[i].Required
        Rest(c) == FieldOrder(SelectSeq(flds, LAMBDA f :
                       ~(IsSpecialName(f.Name) /\ f.Required) /\ FlagCase(f) = c))
    IN SelectSeq(<<fieldName, fieldResourceGroupName, fieldLocation>>, Special)
       \o Rest("required") \o SortStrings(Rest("optional")) \o SortStrings(Rest("computed"))

\* getExpectedOrder(fields, isNested)
AZNR001_getExpectedOrder(flds, isNested) ==
    LET Special(n) == \E i \in 1..Len(flds) : flds[i].Name = n /\ flds[i].Required
        Rest(c) == FieldOrder(SelectSeq(flds, LAMBDA f :
                       ~(IsSpecialName(f.Name) /\ f.Required) /\ FlagCase(f) = c))
        All(c) == FieldOrder(SelectSeq(flds, LAMBDA f : FlagCase(f) = c))
    IN IF ~isNested
       THEN SelectSeq(<<fieldName, fieldResourceGroupName, fieldLocation>>, Special)
            \o Rest("required") \o SortStrings(Rest("optional")) \o SortStrings(Rest("computed"))
       ELSE SortStrings(All("required")) \o SortStrings(All("optional"))
            \o SortStrings(All("computed"))

IssueOrder == "schema fields are not in the correct order"

\* validateOrder(fields, expectedOrder, isNested): the issue, "" for none
AZNR001_validateOrder(flds, expected, isNested) ==
    LET Has(n) == \E i \in 1..Len(flds) : flds[i].Name = n
        Idx(n) == CHOOSE i \in 1..Len(flds) : flds[i].Name = n
        optionalActual == FieldOrder(SelectSeq(flds, LAMBDA f :
                              ~IsSpecialName(f.Name) /\ f.Optional))
        computedActual == FieldOrder(SelectSeq(flds, LAMBDA f :
                              ~IsSpecialName(f.Name) /\ ~f.Optional /\ f.Computed /\ ~f.Required))
        Sorted(a) == \A i \in 1..(Len(a) - 1) : ~StrGreater(a[i], a[i + 1])
    IN IF Len(flds) # Len(expected) THEN ""
       ELSE IF ~isNested
       THEN IF Has(fieldName) /\ Has(fieldResourceGroupName)
                /\ Idx(fieldName) > Idx(fieldResourceGroupName)
            THEN "'resource_group_name' field must come after 'name' field"
            ELSE IF Has(fieldResourceGroupName) /\ Has(fieldLocation)
                    /\ Idx(fieldResourceGroupName) > Idx(fieldLocation)
            THEN "'location' field must come after 'resource_group_name' field"
            ELSE IF Has(fieldName) /\ Has(fieldLocation) /\ Idx(fieldName) > Idx(fieldLocation)
            THEN "'location' field must come after 'name' field"
            ELSE IF ~Sorted(optionalActual) \/ ~Sorted(computedActual) THEN IssueOrder
            ELSE ""
       ELSE IF \E i \in 1..Len(flds) : flds[i].Name # expected[i] THEN IssueOrder
       ELSE ""

\* Schema maps of a new file, any flags on any field.
InitNested ==
    /\ \E n \in 0..MaxFields :
         \E ns \in NameLists(n), ds \in [1..n -> FlagSets] :
            fields = ExtractFromCompositeLit(ns, ds)
    /\ pcN = "inspect"
    /\ outcome = "none"
    /\ expectedOrder = <<>>
    /\ reports = <<>>
    /\ globalChangeSet = NilChangeSet
    /\ filename = FileAccountResource
    /\ smap = <<>>
    /\ InitBuilderIdle
    /\ InitCacheIdle
    /\ InitTracerIdle

\* The ast.Inspect callback of run on one schema map literal of a file that
\* passed the file filters; nestedSchemas[comp] is a fact about the syntax
\* tree, drawn here. checkOrderingIssues is the two calls in the LET.
AZNR001_run ==
    /\ pcN = "inspect"
    /\ pcN' = "inspected"
    /\ \E isNested \in BOOLEAN :
        IF Len(fields) = 0
        THEN outcome' = "empty" /\ UNCHANGED <<expectedOrder, reports>>
        ELSE LET expected == AZNR001_getExpectedOrder(fields, isNested)
                 issue == AZNR001_validateOrder(fields, expected, isNested)
             IN /\ outcome' = IF isNested THEN "nested" ELSE "top-level"
                /\ expectedOrder' = expected
                /\ reports' = IF issue # ""
                              THEN Append(reports, [issue |-> issue,
                                                    expected |-> expected,
                                                    actual |-> FieldOrder(fields)])
                              ELSE reports
    /\ UNCHANGED <<fields, globalChangeSet, filename, smap, runs, cacheVars, tracerVars>>

NextNested == AZNR001_run

SpecNested == InitNested /\ [][NextNested]_vars

(***************************************************************************)
(* Part C.  Properties of the ID provenance tracer and of the AZC006 order *)
(***************************************************************************)
\* TraceIDFields has run on the file
Traced == tpc \in {"inspect", "done"}

\* The one function of the file is the one extractIDFieldsFromFile scans
Scanned ==
    /\ Len(file.funcs) = 1
    /\ ContainsHump(file.funcs[1].name,
                    IF isDataSourceFile(file.path) THEN "Read" ELSE "Create")

\* The function binds the preamble, builds the identifier with ctor(args) and
\* commits it in the given form, and does nothing else
Builds(form, ctor, args) ==
    /\ Len(file.funcs) = 1
    /\ file.funcs[1].body = Preamble \o Commit(form, GoName.id, ctor, args)

SubscriptionGroupName == <<Ident(GoName.subscriptionId), Ident(GoName.resourceGroupName), Ident(GoName.name)>>

\* C12: for a function that binds rg and name with d.Get, builds
\* id := NewResourceID(subscriptionId, rg, name) and commits it, the tracer
\* yields ["resource_group_name", "name"], whether the commit is SetId(id) or
\* SetId(id.ID()).
C12_TracerYieldsGroupAndName ==
    \A form \in {"variable", "stringify"} :
        (Traced /\ Scanned /\ Builds(form, GoName.NewResourceID, SubscriptionGroupName))
            => idFields = <<fieldResourceGroupName, fieldName>>

\* The statement of the function that follows the preamble, and the rest
MainStmt == file.funcs[1].body[Len(Preamble) + 1]

\* id := parse.Ctor(args) followed by d.SetId(id) or d.SetId(id.ID())
CommitsVariable ==
    /\ Len(file.funcs) = 1
    /\ Len(file.funcs[1].body) >= Len(Preamble) + 2
    /\ MainStmt.kind = "assign"
    /\ \E form \in {"variable", "stringify"} :
         SubSeq(file.funcs[1].body, Len(Preamble) + 1, Len(Preamble) + 2)
             = Commit(form, GoName.id, MainStmt.rhs.sel, MainStmt.rhs.args)

\* The statements after the main commit call
Further == SubSeq(file.funcs[1].body, Len(Preamble) + 3, Len(file.funcs[1].body))

\* Identifiers the function never binds to a field and whose name does not
\* contain "subscription"
Unbound == {Ident(GoName.someExternalValue), Ident(GoName.subId)}

\* The list resolved for the main commit call holds the placeholder: the
\* identifier is built by NewResourceID from identifiers, one of them unbound
ResolvesWithPlaceholder ==
    /\ CommitsVariable
    /\ MainStmt.rhs.sel = GoName.NewResourceID
    /\ \A i \in 1..Len(MainStmt.rhs.args) : MainStmt.rhs.args[i].kind = "ident"
    /\ \E i \in 1..Len(MainStmt.rhs.args) : MainStmt.rhs.args[i] \in Unbound

\* C13: when the list resolved for a commit call holds the placeholder, the
\* call contributes no field to the ID fields, not even the fields before the
\* placeholder, and the other commit calls of the function still contribute:
\* the ID fields are exactly those of the further commit call, if there is one.
C13_PlaceholderDiscardsCommit ==
    (Traced /\ Scanned /\ ResolvesWithPlaceholder)
        => idFields = IF Further = <<>> THEN <<>> ELSE <<fieldName, fieldLocation>>

\* parse.NewResourceID(subscriptionId, model.ResourceGroupName, model.Name)
TypedGroupName ==
    <<Ident(GoName.subscriptionId), Selector(GoName.model, GoName.ResourceGroupName), Selector(GoName.model, GoName.Name)>>

\* The ID fields of the same file when its function builds the identifier
\* from the given arguments instead
IdFieldsWith(form, args) ==
    extractIDFieldsFromFile(
        File(file.path,
             <<FuncDecl2(file.funcs[1].name, Preamble \o Commit(form, GoName.id, GoName.NewResourceID, args))>>,
             file.mapping, file.literals),
        file.mapping, isDataSourceFile(file.path), revision)

\* C17: when the identifier is built from member accesses on the typed model,
\* id := NewResourceID(subscriptionId, model.ResourceGroupName, model.Name),
\* the tracer yields the ID fields it yields for the d.Get-bound variables
\* resourceGroupName and name, and the map declared resource_group_name, name,
\* location is reported with the expected order name, resource_group_name,
\* location.
C17_TypedModelReads ==
    \A form \in {"variable", "stringify"} :
        (tpc = "done" /\ Scanned /\ Builds(form, GoName.NewResourceID, TypedGroupName))
            => /\ idFields = IdFieldsWith(form, SubscriptionGroupName)
               /\ Len(findings) >= 1
               /\ findings[1].comp = 1
               /\ findings[1].actualOrder
                      = <<fieldResourceGroupName, fieldName, fieldLocation>>
               /\ findings[1].expectedOrder
                      = <<fieldName, fieldResourceGroupName, fieldLocation>>

\* The one map of the file, a top-level map of a resource or data source, has
\* been checked against an expected order
MapFields == file.literals[1].fields

TopLevelChecked ==
    /\ tpc = "done"
    /\ comp = 1
    /\ Len(file.literals) = 1
    /\ isResourceFile(file.path) \/ isDataSourceFile(file.path)
    /\ ~file.literals[1].nested
    /\ verdict.outcome \in {"ok", "reported"}

MapDeclares(n) == \E i \in 1..Len(MapFields) : MapFields[i].Name = n

FieldOf(n) == MapFields[CHOOSE i \in 1..Len(MapFields) : MapFields[i].Name = n]

\* 1 for required, 2 for optional, 3 for computed-only fields
GroupRank(n) ==
    IF FieldOf(n).Computed /\ ~FieldOf(n).Optional /\ ~FieldOf(n).Required THEN 3
    ELSE IF FieldOf(n).Required THEN 1
    ELSE 2

\* The traced ID fields that the map declares and that are not computed-only
PrefixFields == {n \in Range(idFields) : MapDeclares(n) /\ GroupRank(n) # 3}

PosInIdFields(n) == CHOOSE i \in 1..Len(idFields) : idFields[i] = n

HasLocationSlot == MapDeclares(fieldLocation) /\ fieldLocation \notin PrefixFields

GroupsStart == Cardinality(PrefixFields) + (IF HasLocationSlot THEN 1 ELSE 0)

ComputedIdFields == {n \in Range(idFields) : MapDeclares(n) /\ GroupRank(n) = 3}

\* C15: a traced ID field that the map declares computed-only is not in the
\* ID prefix of the expected order; it appears exactly once, in the sorted
\* computed group: every name from it to the end is computed-only, in
\* ascending order.
C15_ComputedIdInComputedGroup ==
    TopLevelChecked =>
        LET e == verdict.expected
        IN \A n \in ComputedIdFields :
              /\ Cardinality({i \in 1..Len(e) : e[i] = n}) = 1
              /\ \A i, j \in 1..Len(e) :
                    (e[i] = n /\ i < j) => GroupRank(e[j]) = 3 /\ StrGreater(e[j], e[i])

\* The one map of the file is a top-level map of a resource or data source
\* and the callback has returned from it
TopLevelInspected ==
    /\ tpc = "done"
    /\ comp = 1
    /\ Len(file.literals) = 1
    /\ isResourceFile(file.path) \/ isDataSourceFile(file.path)
    /\ ~file.literals[1].nested

\* The create or read function has no SetId call, or commits an identifier
\* parsed from an API response
NoTraceableCommit ==
    /\ Len(file.funcs) = 1
    /\ file.funcs[1].body \in {NoSetIDBody, ParseFromAPIBody}

\* C16: when no commit call resolves and the ID fields are empty, which
\* includes a function without SetId call and an identifier parsed from an
\* API response, no diagnostic is reported for a top-level map of the
\* resource or data source, whatever its declared order.
C16_UnresolvedIdSkipsMap ==
    (TopLevelInspected /\ (idFields = <<>> \/ NoTraceableCommit)) => findings = <<>>

\* The binding newVariableResolver records for the identifier variable
HasRecordedBinding ==
    GoName.id \in DOMAIN newVariableResolver(file.funcs[1], file.mapping, revision).idVarAssignments

RecordedBinding ==
    newVariableResolver(file.funcs[1], file.mapping, revision).idVarAssignments[GoName.id]

\* Identifiers of the preamble that are bound to no field
Unresolvable ==
    {Ident(GoName.subscriptionId), Ident(GoName.subId), Ident(GoName.someExternalValue)}

\* id := parse.NewResourceID(...), committed
BuildsWithNewResourceID ==
    /\ CommitsVariable
    /\ MainStmt.rhs.sel = GoName.NewResourceID

\* C26: an unresolvable constructor argument is dropped silently only when
\* it is the first argument and its name suggests a subscription: an
\* unresolvable argument at another position, or a first argument with
\* another name, is recorded as the placeholder.
C26_SubscriptionSpecialCase ==
    (Traced /\ BuildsWithNewResourceID) =>
        LET args == MainStmt.rhs.args
        IN /\ HasRecordedBinding
           /\ \A i \in 1..Len(args) :
                 (args[i] \in Unresolvable /\ ~(i = 1 /\ ContainsSubscription(args[i].x)))
                     => "" \in Range(RecordedBinding)

\* s with the later occurrences of each element removed
RECURSIVE WithoutLaterDuplicates(_)
WithoutLaterDuplicates(s) ==
    IF s = <<>> THEN <<>>
    ELSE LET d == WithoutLaterDuplicates(Front(s))
         IN IF Last(s) \in Range(d) THEN d ELSE Append(d, Last(s))

\* The field list of the main commit call if the call qualifies: the
\* committed variable has a recorded binding without placeholder
MainContribution ==
    IF HasRecordedBinding /\ "" \notin Range(RecordedBinding) THEN RecordedBinding ELSE <<>>

\* The field list of the further commit call of the function
FurtherContribution == IF Further = <<>> THEN <<>> ELSE <<fieldName, fieldLocation>>

\* C27: the ID fields are the field lists of the qualifying commit calls of
\* the scanned function, concatenated in encounter order, with later
\* duplicates removed; they hold no name twice and never the placeholder.
C27_Accumulation ==
    (Traced /\ Scanned /\ CommitsVariable) =>
        /\ idFields = WithoutLaterDuplicates(MainContribution \o FurtherContribution)
        /\ \A i, j \in 1..Len(idFields) : i # j => idFields[i] # idFields[j]
        /\ "" \notin Range(idFields)

\* The function of SpecParent: the binding of routeTableId and the arguments
\* of the identifier constructor
ParentBinding == file.funcs[1].body[Len(Preamble) + 1]

ParentCallArgs == file.funcs[1].body[Len(Preamble) + 2].rhs.args

OnParent(e) == e.kind = "selector" /\ e.x = GoName.routeTableId

UsesParent == \E i \in 1..Len(ParentCallArgs) : OnParent(ParentCallArgs[i])

\* routeTableId is bound by a Parse*ID call whose argument reads route_table_id
BoundByParse ==
    ParentBinding.rhs = Construct(GoName.ParseHubRouteTableID, <<DGet("route_table_id")>>)

\* The field an argument that is no member access on the parent resolves to
DirectField(e) ==
    IF e = Ident(GoName.name) THEN fieldName
    ELSE IF e = Ident(GoName.resourceGroupName) THEN fieldResourceGroupName
    ELSE ""

NotOnParent(e) == ~OnParent(e)

DirectFields ==
    LET others == SelectSeq(ParentCallArgs, NotOnParent)
    IN [i \in 1..Len(others) |-> DirectField(others[i])]

\* C25: in revision 2, when the New*ID call has member accesses on a variable
\* bound by a Parse*ID call whose argument resolved to a field, the recorded
\* binding is the directly resolved other arguments in argument order followed
\* by that field, and an unresolvable other argument makes the commit call
\* contribute nothing; when the receiver was not bound by a Parse*ID call the
\* pattern does not apply and the arguments resolve as in any New*ID call.
C25_ParentIdPattern ==
    (revision = 2 /\ Traced /\ UsesParent) =>
        IF BoundByParse
        THEN IF "" \in Range(DirectFields)
             THEN idFields = <<>>
             ELSE /\ RecordedBinding = Append(DirectFields, "route_table_id")
                  /\ idFields = RecordedBinding
        ELSE RecordedBinding
                 = resolveFieldsFromArgs(newVariableResolver(file.funcs[1], file.mapping, 2),
                                         ParentCallArgs, 2)

\* The statement of SpecBinding that builds the identifier, and where a body has it
ConstructorStmt ==
    Assign(GoName.id, Construct(GoName.NewResourceID,
                                <<Ident(GoName.resourceGroupName), Ident(GoName.name)>>))

HasConstructor(b) == \E i \in 1..Len(b) : b[i] = ConstructorStmt

ConstructorAt(b) == CHOOSE i \in 1..Len(b) : b[i] = ConstructorStmt

\* The field v is bound to just before statement i of b: the field read by
\* the last assignment to v among the statements before i, "" if there is none
BoundBefore(b, v, i) ==
    LET js == {j \in 1..(i - 1) : b[j].kind = "assign" /\ b[j].lhs = v}
    IN IF js = {} THEN ""
       ELSE b[CHOOSE j \in js : \A k \in js : k <= j].rhs.args[1].lit

\* The binding of the identifier variable by the bindings in force at the
\* constructor assignment
BindingAtConstructor(b) ==
    WithoutLaterDuplicates(<<BoundBefore(b, GoName.resourceGroupName, ConstructorAt(b)),
                             BoundBefore(b, GoName.name, ConstructorAt(b))>>)

BindingOf(k) ==
    newVariableResolver(file.funcs[k], file.mapping, revision).idVarAssignments[GoName.id]

Commits(b) == \E i \in 1..Len(b) : b[i].kind = "expr"

\* What function k contributes to the ID fields when its binding is resolved
ContributionOf(k) ==
    IF HasConstructor(file.funcs[k].body) /\ Commits(file.funcs[k].body)
    THEN BindingAtConstructor(file.funcs[k].body)
    ELSE <<>>

\* C30: the binding recorded for the identifier variable of a function holds
\* the fields its argument variables are bound to at the constructor
\* assignment: a variable bound only later is the placeholder, a later
\* re-binding changes nothing, and the bindings of the other function of the
\* file play no part. When no binding holds the placeholder, the ID fields are
\* what the functions contribute by these bindings.
C30_BindingOrder ==
    Traced =>
        /\ \A k \in 1..Len(file.funcs) :
              HasConstructor(file.funcs[k].body)
                  => BindingOf(k) = BindingAtConstructor(file.funcs[k].body)
        /\ (\A k \in 1..Len(file.funcs) : "" \notin Range(ContributionOf(k)))
              => idFields = WithoutLaterDuplicates(ContributionOf(1) \o ContributionOf(2))

\* name is bound before the constructor and bound again to another field
\* after it; the other function binds nothing and commits the placeholder.
C30_Witness ==
    /\ Traced
    /\ file.funcs[1].body
         = << Assign(GoName.resourceGroupName, DGet(fieldResourceGroupName)),
              Assign(GoName.name, DGet(fieldName)),
              ConstructorStmt,
              Assign(GoName.name, DGet(fieldLocation)),
              ExprStmt(MethodCall(GoName.d, GoName.SetId,
                                  <<MethodCall(GoName.id, GoName.ID, <<>>)>>)) >>
    /\ HasConstructor(file.funcs[2].body)
    /\ BindingOf(2) = <<"">>
    /\ idFields = <<fieldResourceGroupName, fieldName>>

(***************************************************************************)
(* Part B.  Placement of location and the fixpoint of the check            *)
(***************************************************************************)
\* The groups by flags alone, `tags` apart: Required decides before Optional
RequiredByFlags(f) == Resolved(f) /\ f.SchemaInfo.Required /\ f.Name # fieldTags

OptionalByFlags(f) ==
    Resolved(f) /\ f.SchemaInfo.Optional /\ ~f.SchemaInfo.Required /\ f.Name # fieldTags

ComputedOnlyByFlags(f) ==
    /\ Resolved(f) /\ f.SchemaInfo.Computed
    /\ ~f.SchemaInfo.Required /\ ~f.SchemaInfo.Optional /\ f.Name # fieldTags

NumRequired == Len(SelectSeq(fields, RequiredByFlags))

NumOptional == Len(SelectSeq(fields, OptionalByFlags))

DeclaresLocation == \E i \in 1..Len(fields) : fields[i].Name = fieldLocation /\ Resolved(fields[i])

LocationField == fields[IndexOf(fieldLocation)]

\* The optional segment of the expected order when `location` is an optional
\* field like any other
OptionalSegment == SubSeq(Built, NumRequired + 1, NumRequired + NumOptional)

\* A computed-only `location` is the first element after the required and the
\* optional fields.
LocationHeadsComputed ==
    /\ Len(Built) > NumRequired + NumOptional
    /\ Built[NumRequired + NumOptional + 1] = fieldLocation
    /\ \A i \in 1..Len(Built) : Built[i] = fieldLocation => i = NumRequired + NumOptional + 1

\* C24: a `location` with a computed-only descriptor stands right after all
\* required and optional fields, ahead of the sorted computed fields; a
\* `location` with Required set stays in the required group, and one with
\* Optional set (Computed set or not) stays in the optional group, in
\* ascending order with the other optional fields unless an optional field is
\* declared before the first required one.
C24_LocationPlacement ==
    (Checked /\ ~Exempt /\ DeclaresLocation) =>
        IF ComputedOnlyByFlags(LocationField) THEN LocationHeadsComputed
        ELSE IF RequiredByFlags(LocationField)
        THEN fieldLocation \in Range(SubSeq(Built, 1, NumRequired))
        ELSE IF OptionalByFlags(LocationField)
        THEN /\ fieldLocation \in Range(OptionalSegment)
             /\ OptionalDeclaredBeforeRequired \/ Ascending(OptionalSegment)
        ELSE TRUE

\* The part of C24 about a computed-only `location`.
C24_ComputedOnlyHeadsComputed ==
    (Checked /\ ~Exempt /\ DeclaresLocation /\ ComputedOnlyByFlags(LocationField))
        => LocationHeadsComputed

\* The part of C24 about a `location` without Computed set.
C24_UncomputedStays ==
    (Checked /\ ~Exempt /\ DeclaresLocation /\ ~LocationField.SchemaInfo.Computed) =>
        IF RequiredByFlags(LocationField)
        THEN fieldLocation \in Range(SubSeq(Built, 1, NumRequired))
        ELSE OptionalByFlags(LocationField) =>
                 /\ fieldLocation \in Range(OptionalSegment)
                 /\ OptionalDeclaredBeforeRequired \/ Ascending(OptionalSegment)

Redeclared == runs # <<>>

\* C28: a map that got a Finding and is declared again, with the same names
\* and flags, in the reported expected order gets no further Finding, and the
\* expected order built for it is the order it is declared in.
C28_ExpectedOrderIsFixpoint ==
    (Checked /\ Redeclared) =>
        /\ Len(reports) = 1
        /\ expectedOrder = FieldOrder(fields)

\* C28 for the maps whose reported expected order has its optional fields in
\* ascending order.
C28_FixpointWhenOptionalAscending ==
    (Checked /\ Redeclared /\ Ascending(DeclaredOptional)) =>
        /\ Len(reports) = 1
        /\ expectedOrder = FieldOrder(fields)

(***************************************************************************)
(* Part A.  Liveness of runCommon                                          *)
(***************************************************************************)
InCall(g) == pc[g] # "idle"

\* C29: under fair scheduling every call of runCommon returns, whoever else
\* is calling and whether the loads find entries or none: no caller stays
\* blocked on loadMutex.
C29_EveryCallReturns ==
    \A g \in Procs : InCall(g) ~> Returned(g)

\* Two callers both found the cache empty and wait for the write lock behind
\* a third one, whose load has found no entry.
C29_Witness ==
    \E g \in Procs :
        /\ pc[g] = "load" /\ todo[g] = {} /\ heap[info[g]] = {}
        /\ \A h \in Procs \ {g} : pc[h] = "lock"

(***************************************************************************)
(* Part A.  The cache guarded by sync.Once                                 *)
(***************************************************************************)
RanLoad(g) == info[g] # Nil

\* C23: in the variant guarded by sync.Once a load that found no entry leaves
\* the cache retryable: every call that returns while the cache is still
\* empty has made a load attempt of its own, and an attempt that finds an
\* entry populates the cache, which is what the call returns.
C23_OnceRetriesAfterFailure ==
    \A g \in Procs :
        /\ (Returned(g) /\ globalSchemaInfo = Nil) => RanLoad(g)
        /\ (Returned(g) /\ RanLoad(g) /\ Populated(info[g])) =>
               /\ globalSchemaInfo = info[g]
               /\ result[g].value = info[g]

\* The part of C23 about an attempt that finds an entry.
C23_SuccessfulLoadPopulates ==
    \A g \in Procs :
        (Returned(g) /\ RanLoad(g) /\ Populated(info[g])) =>
            /\ globalSchemaInfo = info[g]
            /\ result[g].value = info[g]

\* No call makes a load attempt once one attempt was made.
C23_SingleAttempt == Len(loadLog) <= 1

(***************************************************************************)
(* Part B.  Nested maps                                                    *)
(***************************************************************************)
NestedChecked == pcN = "inspected" /\ outcome = "nested"

\* The names of the fields of the map whose flags put them in group c
GroupNames(c) == {fields[i].Name : i \in {j \in 1..Len(fields) : FlagCase(fields[j]) = c}}

\* s holds exactly the names of group c, each once, in ascending order
IsSortedGroup(s, c) ==
    /\ Range(s) = GroupNames(c)
    /\ Len(s) = Cardinality(GroupNames(c))
    /\ Ascending(s)

NumIn(c) == Cardinality(GroupNames(c))

Extracted == pcN = "done" /\ outcome # "none" /\ smap # <<>>

\* The elements of the literal with a constant string key, in declaration order
ConstantKeyed == SelectSeq(smap, LAMBDA e : e.key # "")

HasOtherShape == \E i \in 1..Len(ConstantKeyed) : ConstantKeyed[i].shape = "other"

\* C21: the extracted sequence has one element per key/value entry with a
\* constant string key, in declaration order; an entry whose value is neither
\* a composite literal nor a call is in it with no descriptor, and a map with
\* such an entry gets no Finding.
C21_ExtractorKeepsPlaceholders ==
    Extracted =>
        /\ Len(fields) = Len(ConstantKeyed)
        /\ \A i \in 1..Len(ConstantKeyed) :
              /\ fields[i].Name = ConstantKeyed[i].key
              /\ ConstantKeyed[i].shape = "other" => fields[i].SchemaInfo = NilInfo
        /\ HasOtherShape => reports = <<>>

\* The part of C21 that holds: the extracted sequence is the entries with a
\* constant key and a composite-literal or call value, in declaration order,
\* with the descriptor resolved for the value (none for an unresolved call).
C21_ExtractedInDeclarationOrder ==
    Extracted =>
        LET kept == SelectSeq(ConstantKeyed, LAMBDA e : e.shape # "other")
        IN /\ Len(fields) = Len(kept)
           /\ \A i \in 1..Len(kept) :
                 fields[i].Name = kept[i].key /\ fields[i].SchemaInfo = kept[i].info

====
